---------------------------- MODULE Spec2Model ----------------------------
(***************************************************************************)
(* A model of the data-quality analysis library (dataAnalysis.js):         *)
(* detectDataType, findMissingValues, findDuplicates, calculateStatistics, *)
(* detectOutliers and analyzeDataQuality, and of generateAIInsights with   *)
(* its fallback (aiIntegration.js).  The analysis functions are pure; the  *)
(* specifications draw a dataset, or the values of one column, from a      *)
(* bounded set and apply them.  generateAIInsights is asynchronous: its    *)
(* specification steps through the outcomes of the request it awaits.      *)
(* The JSON file store (db.js) is modelled by the content of data/db.json  *)
(* and the calls in flight, each stepping from its read of the file to its *)
(* write; the POST /api/ai-insights handler steps through its awaits.      *)
(*                                                                         *)
(* JavaScript numbers are modelled as exact rationals extended with NaN    *)
(* and the two infinities; strings are tuples of one-character strings, so *)
(* that trimming, pattern tests, parsing and the default sort order are    *)
(* computed from the characters.                                           *)
(***************************************************************************)
EXTENDS Integers, Sequences, FiniteSets, TLC

VARIABLES headers, rows, other, cells, call, result, dbFile, calls

vars == <<headers, rows, other, cells, call, result, dbFile, calls>>

-----------------------------------------------------------------------------
(* JavaScript numbers *)

RECURSIVE GCD(_, _)
GCD(a, b) == IF b = 0 THEN a ELSE GCD(b, a % b)

Abs(x) == IF x < 0 THEN -x ELSE x

\* A finite number n/d (d > 0) in lowest terms, so that equal numbers are
\* equal records.
Fin(n, d) ==
  LET g == GCD(Abs(n), Abs(d))
      s == IF d < 0 THEN -1 ELSE 1
  IN  [k |-> "num", n |-> s * (n \div g), d |-> s * (d \div g)]

Int2Num(i) == [k |-> "num", n |-> i, d |-> 1]

NaN == [k |-> "nan", n |-> 0, d |-> 0]

Infinity(sign) == [k |-> "inf", n |-> sign, d |-> 0]

isNaNNumber(x) == x.k = "nan"

IsFinite(x) == x.k = "num"

Sign(x) == IF x.n > 0 THEN 1 ELSE IF x.n < 0 THEN -1 ELSE 0

\* x + y
Add(x, y) ==
  IF x.k = "nan" \/ y.k = "nan" THEN NaN
  ELSE IF x.k = "inf" /\ y.k = "inf" THEN (IF x.n = y.n THEN x ELSE NaN)
  ELSE IF x.k = "inf" THEN x
  ELSE IF y.k = "inf" THEN y
  ELSE LET g == GCD(x.d, y.d)   \* reduced first, to keep the products small
       IN  Fin(x.n * (y.d \div g) + y.n * (x.d \div g), (x.d \div g) * y.d)

Neg(x) == IF x.k = "nan" THEN NaN ELSE [x EXCEPT !.n = -x.n]

\* x - y
Sub(x, y) == Add(x, Neg(y))

\* x * y
Mul(x, y) ==
  IF x.k = "nan" \/ y.k = "nan" THEN NaN
  ELSE IF x.k = "inf" \/ y.k = "inf"
       THEN (IF Sign(x) * Sign(y) = 0 THEN NaN ELSE Infinity(Sign(x) * Sign(y)))
  ELSE Fin(x.n * y.n, x.d * y.d)

\* x / y: 0/0 is NaN, a non-zero number over 0 is an infinity.
Div(x, y) ==
  IF x.k = "nan" \/ y.k = "nan" THEN NaN
  ELSE IF x.k = "inf" /\ y.k = "inf" THEN NaN
  ELSE IF x.k = "inf" THEN Infinity(IF Sign(y) < 0 THEN -x.n ELSE x.n)
  ELSE IF y.k = "inf" THEN Int2Num(0)
  ELSE IF y.n = 0 THEN (IF x.n = 0 THEN NaN ELSE Infinity(Sign(x)))
  ELSE Fin(x.n * y.d, x.d * y.n)

\* x < y; every comparison with NaN is false.
Lt(x, y) ==
  IF x.k = "nan" \/ y.k = "nan" THEN FALSE
  ELSE IF x.k = "inf" THEN x.n < 0 /\ ~(y.k = "inf" /\ y.n < 0)
  ELSE IF y.k = "inf" THEN y.n > 0
  ELSE x.n * y.d < y.n * x.d

Gt(x, y) == Lt(y, x)

Le(x, y) == x.k # "nan" /\ y.k # "nan" /\ ~Lt(y, x)

Ge(x, y) == Le(y, x)

\* Math.max(x, y): NaN when either argument is NaN.
MathMax(x, y) ==
  IF x.k = "nan" \/ y.k = "nan" THEN NaN
  ELSE IF Lt(x, y) THEN y ELSE x

\* Number.prototype.toFixed(1), as the number of tenths printed: "33.3" is 333.
\* Ties go to the larger value.  NaN prints "NaN", here the value NaN itself.
toFixed1(x) ==
  IF x.k # "num" THEN x
  ELSE Int2Num((x.n * 20 + x.d) \div (2 * x.d))

\* Number.prototype.toFixed(0)
toFixed0(x) ==
  IF x.k # "num" THEN x
  ELSE Int2Num((x.n * 2 + x.d) \div (2 * x.d))

-----------------------------------------------------------------------------
(* Strings: tuples of one-character strings *)

Digits == {"0", "1", "2", "3", "4", "5", "6", "7", "8", "9"}

WhiteSpace == {" "}

\* The UTF-16 code unit of each character of the model's alphabet.
CharCode(c) ==
  CASE c = " " -> 32 [] c = "$" -> 36 [] c = "(" -> 40 [] c = ")" -> 41
    [] c = "," -> 44 [] c = "-" -> 45 [] c = "/" -> 47
    [] c = "0" -> 48 [] c = "1" -> 49 [] c = "2" -> 50 [] c = "3" -> 51
    [] c = "4" -> 52 [] c = "5" -> 53 [] c = "6" -> 54 [] c = "7" -> 55
    [] c = "8" -> 56 [] c = "9" -> 57
    [] c = "A" -> 65 [] c = "L" -> 76 [] c = "N" -> 78 [] c = "O" -> 79
    [] c = "U" -> 85
    [] c = "a" -> 97 [] c = "b" -> 98 [] c = "c" -> 99 [] c = "d" -> 100
    [] c = "e" -> 101 [] c = "f" -> 102 [] c = "g" -> 103 [] c = "i" -> 105
    [] c = "l" -> 108 [] c = "n" -> 110 [] c = "o" -> 111 [] c = "r" -> 114
    [] c = "s" -> 115 [] c = "t" -> 116 [] c = "u" -> 117 [] c = "y" -> 121

DigitValue(c) == CharCode(c) - 48

\* The character classes [a-z] and [A-Z]
IsLower(c) == CharCode(c) \in 97..122

IsUpper(c) == CharCode(c) \in 65..90

\* String.prototype.toLowerCase on one character
LowerChar(c) ==
  CASE c = "A" -> "a" [] c = "L" -> "l" [] c = "N" -> "n" [] c = "O" -> "o"
    [] c = "U" -> "u"
    [] OTHER -> c

toLowerCase(s) == [i \in 1..Len(s) |-> LowerChar(s[i])]

\* s.trim()
RECURSIVE TrimStart(_)
TrimStart(s) ==
  IF s # <<>> /\ Head(s) \in WhiteSpace THEN TrimStart(Tail(s)) ELSE s

RECURSIVE TrimEnd(_)
TrimEnd(s) ==
  IF s # <<>> /\ s[Len(s)] \in WhiteSpace
  THEN TrimEnd(SubSeq(s, 1, Len(s) - 1)) ELSE s

trim(s) == TrimEnd(TrimStart(s))

\* s.includes(c) for a one-character c
includes(s, c) == \E i \in 1..Len(s) : s[i] = c

AllIn(s, set) == \A i \in 1..Len(s) : s[i] \in set

\* s1 < s2 by code units, as the default sort and the key order compare strings.
RECURSIVE StrLess(_, _)
StrLess(s1, s2) ==
  IF s2 = <<>> THEN FALSE
  ELSE IF s1 = <<>> THEN TRUE
  ELSE IF CharCode(Head(s1)) # CharCode(Head(s2))
       THEN CharCode(Head(s1)) < CharCode(Head(s2))
  ELSE StrLess(Tail(s1), Tail(s2))

\* The value of a string of decimal digits
RECURSIVE DigitsValue(_)
DigitsValue(s) ==
  IF s = <<>> THEN 0
  ELSE DigitsValue(SubSeq(s, 1, Len(s) - 1)) * 10 + DigitValue(s[Len(s)])

\* The decimal digits of a natural number
RECURSIVE NatToString(_)
NatToString(i) ==
  LET d == <<"0", "1", "2", "3", "4", "5", "6", "7", "8", "9">>[(i % 10) + 1]
  IN  IF i < 10 THEN <<d>> ELSE Append(NatToString(i \div 10), d)

\* Number::toString for the integers the cells hold
IntToString(i) == IF i < 0 THEN <<"-">> \o NatToString(-i) ELSE NatToString(i)

\* The longest prefix of s made of decimal digits
RECURSIVE DigitPrefix(_)
DigitPrefix(s) ==
  IF s # <<>> /\ Head(s) \in Digits THEN <<Head(s)>> \o DigitPrefix(Tail(s))
  ELSE <<>>

\* parseFloat(s): leading white space, an optional sign, then the longest run
\* of digits; NaN when there is no digit.  (The alphabet has no ".", "e" or
\* "I", so a StrDecimalLiteral is a run of digits.)
parseFloatStr(s) ==
  LET t    == TrimStart(s)
      neg  == t # <<>> /\ Head(t) = "-"
      body == IF neg THEN Tail(t) ELSE t
      ds   == DigitPrefix(body)
  IN  IF ds = <<>> THEN NaN
      ELSE Int2Num(IF neg THEN -DigitsValue(ds) ELSE DigitsValue(ds))

\* Number(s) (StringToNumber): the trimmed text is empty (0) or an optionally
\* signed run of digits; anything else is NaN.
StringToNumber(s) ==
  LET t    == trim(s)
      neg  == t # <<>> /\ Head(t) = "-"
      body == IF neg THEN Tail(t) ELSE t
  IN  IF t = <<>> THEN Int2Num(0)
      ELSE IF body # <<>> /\ AllIn(body, Digits)
           THEN Int2Num(IF neg THEN -DigitsValue(body) ELSE DigitsValue(body))
      ELSE NaN

-----------------------------------------------------------------------------
(* Cell values: null | undefined (an absent key) | number | text | boolean *)

Null == [t |-> "null", n |-> 0, s |-> <<>>]

Undefined == [t |-> "undefined", n |-> 0, s |-> <<>>]

NumCell(i) == [t |-> "number", n |-> i, s |-> <<>>]

StrCell(str) == [t |-> "string", n |-> 0, s |-> str]

BoolCell(b) == [t |-> "boolean", n |-> IF b THEN 1 ELSE 0, s |-> <<>>]

typeof(v) == v.t

\* StringOf(v), as v.toString() and the default sort see a value
StringOf(v) ==
  CASE v.t = "string"    -> v.s
    [] v.t = "number"    -> IntToString(v.n)
    [] v.t = "boolean"   -> (IF v.n = 1 THEN <<"t", "r", "u", "e">>
                             ELSE <<"f", "a", "l", "s", "e">>)
    [] v.t = "null"      -> <<"n", "u", "l", "l">>
    [] v.t = "undefined" -> <<"u", "n", "d", "e", "f", "i", "n", "e", "d">>

\* ToBoolean(v), as filter(v => v) and `v && ...` see a value
ToBoolean(v) ==
  CASE v.t = "string"  -> v.s # <<>>
    [] v.t = "number"  -> v.n # 0
    [] v.t = "boolean" -> v.n = 1
    [] OTHER           -> FALSE

\* ToNumber(v), the coercion inside the global isNaN
ToNumber(v) ==
  CASE v.t = "string"    -> StringToNumber(v.s)
    [] v.t = "number"    -> Int2Num(v.n)
    [] v.t = "boolean"   -> Int2Num(v.n)
    [] v.t = "null"      -> Int2Num(0)
    [] v.t = "undefined" -> NaN

isNaN(v) == isNaNNumber(ToNumber(v))

\* parseFloat(v): the argument is converted to a string first
parseFloat(v) ==
  IF v.t = "number" THEN Int2Num(v.n) ELSE parseFloatStr(StringOf(v))

\* v !== null && v !== undefined && v !== ''
NonNull(v) == v # Null /\ v # Undefined /\ v # StrCell(<<>>)

\* The elements of a sequence
Range(seq) == {seq[i] : i \in 1..Len(seq)}

\* The sum of seq[lo..hi].  The numbers are exact, so the sum does not depend
\* on the grouping; halving keeps the evaluation shallow for long columns.
RECURSIVE SumRange(_, _, _)
SumRange(seq, lo, hi) ==
  IF lo > hi THEN Int2Num(0)
  ELSE IF lo = hi THEN seq[lo]
  ELSE Add(SumRange(seq, lo, (lo + hi) \div 2), SumRange(seq, ((lo + hi) \div 2) + 1, hi))

\* reduce((acc, val) => acc + val, 0)
SumSeq(seq) == SumRange(seq, 1, Len(seq))

-----------------------------------------------------------------------------
(* Own property keys of an object, as Object.entries / Object.values list   *)
(* them: array-index keys in ascending numeric order, then the other keys   *)
(* in insertion order.                                                      *)

\* A canonical numeric string below 2^32 - 1.  Every such string of at most
\* nine digits is one; the column names of the model are no longer than that.
IsArrayIndex(key) ==
  /\ key # <<>>
  /\ AllIn(key, Digits)
  /\ (Len(key) = 1 \/ key[1] # "0")
  /\ Len(key) <= 9

RECURSIVE SortKeysByValue(_)
SortKeysByValue(keys) ==
  IF keys = {} THEN <<>>
  ELSE LET m == CHOOSE k \in keys : \A j \in keys : DigitsValue(k) <= DigitsValue(j)
       IN  <<m>> \o SortKeysByValue(keys \ {m})

\* inserted: the keys in the order they were first assigned
OwnKeys(inserted) ==
  SortKeysByValue({k \in Range(inserted) : IsArrayIndex(k)})
    \o SelectSeq(inserted, LAMBDA k : ~IsArrayIndex(k))

-----------------------------------------------------------------------------
(* detectDataType *)

BooleanWords ==
  { <<"t", "r", "u", "e">>, <<"f", "a", "l", "s", "e">>, <<"y", "e", "s">>,
    <<"n", "o">>, <<"1">>, <<"0">> }

\* /^\d{4}-\d{2}-\d{2}$/, /^\d{2}\/\d{2}\/\d{4}$/, /^\d{2}-\d{2}-\d{4}$/
MatchesShape(s, l1, sep, l2, l3) ==
  /\ Len(s) = l1 + l2 + l3 + 2
  /\ s[l1 + 1] = sep
  /\ s[l1 + l2 + 2] = sep
  /\ \A i \in (1..Len(s)) \ {l1 + 1, l1 + l2 + 2} : s[i] \in Digits

\* new Date(text) is a valid date, for a text of one of the three shapes.
\* The ISO shape needs month 01..12 and day 01..31; the other two shapes are
\* read month-first by the engine's legacy parser.
DateParses(s) ==
  LET iso   == MatchesShape(s, 4, "-", 2, 2)
      month == IF iso THEN DigitsValue(SubSeq(s, 6, 7)) ELSE DigitsValue(SubSeq(s, 1, 2))
      day   == IF iso THEN DigitsValue(SubSeq(s, 9, 10)) ELSE DigitsValue(SubSeq(s, 4, 5))
  IN  month \in 1..12 /\ day \in 1..31

isValidDate(value) ==
  IF typeof(value) = "number" THEN FALSE
  ELSE IF /\ typeof(value) = "string"
          /\ \/ MatchesShape(value.s, 4, "-", 2, 2)
             \/ MatchesShape(value.s, 2, "/", 2, 4)
             \/ MatchesShape(value.s, 2, "-", 2, 4)
       THEN DateParses(value.s)
  ELSE FALSE

\* Variant: the number test comes before the boolean test
ClassifyValueNumberFirst(value) ==
  IF typeof(value) = "number" \/ (~isNaN(value) /\ ~isNaNNumber(parseFloat(value)))
  THEN "number"
  ELSE IF \/ typeof(value) = "boolean"
          \/ (typeof(value) = "string" /\ toLowerCase(value.s) \in BooleanWords)
  THEN "boolean"
  ELSE IF isValidDate(value) THEN "date"
  ELSE "string"

\* The type one non-null value is tallied under
ClassifyValue(value) ==
  IF \/ typeof(value) = "boolean"
     \/ (typeof(value) = "string" /\ toLowerCase(value.s) \in BooleanWords)
  THEN "boolean"
  ELSE IF typeof(value) = "number" \/ (~isNaN(value) /\ ~isNaNNumber(parseFloat(value)))
  THEN "number"
  ELSE IF isValidDate(value) THEN "date"
  ELSE "string"

\* Variant: a later entry with an equal count replaces the current maximum
RECURSIVE ReduceDominantLastWins(_, _)
ReduceDominantLastWins(max, rest) ==
  IF rest = <<>> THEN max
  ELSE ReduceDominantLastWins(IF Head(rest).count >= max.count THEN Head(rest) ELSE max,
                              Tail(rest))

\* types.reduce((max, curr) => curr.count > max.count ? curr : max)
RECURSIVE ReduceDominant(_, _)
ReduceDominant(max, rest) ==
  IF rest = <<>> THEN max
  ELSE ReduceDominant(IF Head(rest).count > max.count THEN Head(rest) ELSE max, Tail(rest))

\* The types array: one entry per type, in the order the code lists them
TypeEntries(nonNullValues, total) ==
  LET Entry(ty) ==
        [type |-> ty,
         count |-> Len(SelectSeq(nonNullValues, LAMBDA v : ClassifyValue(v) = ty)),
         confidence |-> Div(Int2Num(Len(SelectSeq(nonNullValues,
                                                  LAMBDA v : ClassifyValue(v) = ty))),
                            Int2Num(total))]
  IN  <<Entry("number"), Entry("string"), Entry("boolean"), Entry("date")>>

\* The returned object, from the types array and its dominant entry
TypeInfo(values, total, types, dominant) ==
  [type |-> dominant.type,
   confidence |-> dominant.confidence,
   nullable |-> Len(values) > total,
   mixedTypes |-> Cardinality({i \in 1..4 : types[i].count > 0}) > 1]

TypeInfoOf(values, total, types) ==
  TypeInfo(values, total, types, ReduceDominant(types[1], Tail(types)))

DetectNonNull(values, nonNullValues) ==
  IF Len(nonNullValues) = 0
  THEN [type |-> "empty", confidence |-> Int2Num(1), nullable |-> TRUE]
  ELSE TypeInfoOf(values, Len(nonNullValues),
                  TypeEntries(nonNullValues, Len(nonNullValues)))

detectDataType(values) == DetectNonNull(values, SelectSeq(values, NonNull))

\* t.mixedTypes read as a condition: an absent field is undefined, hence false
MixedTypes(t) == "mixedTypes" \in DOMAIN t /\ t.mixedTypes

-----------------------------------------------------------------------------
(* A dataset: headers, a sequence of distinct column names, and rows, each  *)
(* a function from the column names to cells (Undefined for an absent key). *)

Column(parsedData, header) ==
  [i \in 1..Len(parsedData.rows) |-> parsedData.rows[i][header]]

-----------------------------------------------------------------------------
(* findMissingValues *)

\* Variant: white-space text is not missing
isMissingNoTrim(value) ==
  value = Null \/ value = Undefined \/ value = StrCell(<<>>)

isMissing(value) ==
  \/ value = Null
  \/ value = Undefined
  \/ value = StrCell(<<>>)
  \/ (typeof(value) = "string" /\ trim(value.s) = <<>>)

\* Variant: the percentage of present cells is subtracted
CompletenessScorePresent(percentMissing, columnsWithMissing, totalColumns) ==
  MathMax(Int2Num(0),
          Sub(Sub(Int2Num(100), Sub(Int2Num(100), percentMissing)),
              Mul(Div(Int2Num(columnsWithMissing), Int2Num(totalColumns)), Int2Num(15))))

\* strictCompletenessScore
CompletenessScore(percentMissing, columnsWithMissing, totalColumns) ==
  MathMax(Int2Num(0),
          Sub(Sub(Int2Num(100), percentMissing),
              Mul(Div(Int2Num(columnsWithMissing), Int2Num(totalColumns)), Int2Num(15))))

findMissingValues(parsedData) ==
  LET hs == parsedData.headers
      rs == parsedData.rows
      hset == Range(hs)
      \* positions are 0-based row indices, in row order
      Positions(h) == SelectSeq([i \in 1..Len(rs) |-> i - 1],
                                LAMBDA p : isMissing(rs[p + 1][h]))
      missingByColumn ==
        [h \in hset |->
           [count |-> Len(Positions(h)),
            percentage |-> Mul(Div(Int2Num(Len(Positions(h))), Int2Num(Len(rs))), Int2Num(100)),
            positions |-> Positions(h)]]
      MissingInRow(i) == Cardinality({j \in 1..Len(hs) : isMissing(rs[i][hs[j]])})
      missingByRow ==
        [j \in 1..Cardinality({i \in 1..Len(rs) : MissingInRow(i) > 0}) |->
           LET i == CHOOSE i \in 1..Len(rs) :
                      /\ MissingInRow(i) > 0
                      /\ Cardinality({m \in 1..i : MissingInRow(m) > 0}) = j
           IN  [rowIndex |-> i - 1,
                missingCount |-> MissingInRow(i),
                percentage |-> Mul(Div(Int2Num(MissingInRow(i)), Int2Num(Len(hs))), Int2Num(100))]]
      totalCells == Len(hs) * Len(rs)
      keys == OwnKeys(hs)
      totalMissing == SumSeq([i \in 1..Len(keys) |-> Int2Num(missingByColumn[keys[i]].count)])
      columnsWithMissing == Cardinality({h \in hset : missingByColumn[h].count > 0})
      percentMissing == Mul(Div(totalMissing, Int2Num(totalCells)), Int2Num(100))
      strictCompletenessScore == CompletenessScore(percentMissing, columnsWithMissing, Len(hs))
  IN  [byColumn |-> missingByColumn,
       byRow |-> missingByRow,
       total |-> totalMissing,
       percentage |-> Mul(Div(totalMissing, Int2Num(totalCells)), Int2Num(100)),
       completenessScore |-> strictCompletenessScore]

-----------------------------------------------------------------------------
(* findDuplicates *)

\* Array.prototype.sort() with no comparator: undefined elements go last, the
\* others are ordered by their string conversions, equal ones keeping their
\* relative order.
RECURSIVE InsertSorted(_, _)
InsertSorted(x, sorted) ==
  IF sorted = <<>> THEN <<x>>
  ELSE IF StrLess(StringOf(x), StringOf(Head(sorted))) THEN <<x>> \o sorted
  ELSE <<Head(sorted)>> \o InsertSorted(x, Tail(sorted))

RECURSIVE SortDefined(_)
SortDefined(arr) ==
  IF arr = <<>> THEN <<>>
  ELSE InsertSorted(arr[Len(arr)], SortDefined(SubSeq(arr, 1, Len(arr) - 1)))

defaultSort(arr) ==
  SortDefined(SelectSeq(arr, LAMBDA v : v # Undefined))
    \o SelectSeq(arr, LAMBDA v : v = Undefined)

\* JSON.stringify of an array: one token per element, undefined written as
\* null, text quoted (so 1 and "1" differ).
JSONstringify(arr) == [i \in 1..Len(arr) |-> IF arr[i] = Undefined THEN Null ELSE arr[i]]

rowHash(hs, row) == JSONstringify(defaultSort([j \in 1..Len(hs) |-> row[hs[j]]]))

\* The headers array once every row is hashed: sort() reorders in place, but
\* the array it is called on is the one headers.map has just built, so
\* headers (and the row objects) stay as they were.
HeadersAfterHash(parsedData) == parsedData.headers

\* Variant: seen.set runs for every row, so the last occurrence is stored
SeenAfterLastWins(seen, hash, index) ==
  {e \in seen : e[1] # hash} \cup {<<hash, index>>}

\* Variant: the Map is rebuilt for every row and remembers the previous row only
SeenAfterOnlyPrevious(seen, hash, index) == {<<hash, index>>}

\* The Map after one row: seen.set(rowHash, index) runs only for a hash that
\* is not yet a key.
SeenAfter(seen, hash, index) ==
  IF \E e \in seen : e[1] = hash THEN seen ELSE seen \cup {<<hash, index>>}

\* Variant: only the first repeat of a row is recorded
ScanRowFirstRepeat(parsedData, i, state) ==
  LET row  == parsedData.rows[i]
      hash == rowHash(parsedData.headers, row)
      original == (CHOOSE e \in state.seen : e[1] = hash)[2]
  IN  [seen |-> SeenAfter(state.seen, hash, i - 1),
       duplicates |-> IF /\ \E e \in state.seen : e[1] = hash
                         /\ \A k \in 1..Len(state.duplicates) :
                              state.duplicates[k].originalRow # original
                      THEN Append(state.duplicates,
                                  [originalRow |-> original, duplicateRow |-> i - 1, data |-> row])
                      ELSE state.duplicates]

\* One pass of the rows.forEach body, for row i (1-based).  state.seen pairs
\* a hash with the 0-based index stored for it.
ScanRow(parsedData, i, state) ==
  LET row  == parsedData.rows[i]
      hash == rowHash(parsedData.headers, row)
  IN  [seen |-> SeenAfter(state.seen, hash, i - 1),
       duplicates |-> IF \E e \in state.seen : e[1] = hash
                      THEN Append(state.duplicates,
                                  [originalRow |-> (CHOOSE e \in state.seen : e[1] = hash)[2],
                                   duplicateRow |-> i - 1,
                                   data |-> row])
                      ELSE state.duplicates]

\* The rows.forEach loop over rows lo..hi, in order, from a given state.  The
\* range is halved so that the evaluation stays shallow for long datasets.
\* (Before row lo at most lo - 1 rows are recorded, so the second disjunct is
\* never true; reading the state there has it computed before the rows that
\* follow.)
RECURSIVE ScanRows(_, _, _, _)
ScanRows(parsedData, lo, hi, state) ==
  IF lo > hi \/ Len(state.duplicates) >= lo THEN state
  ELSE IF lo = hi THEN ScanRow(parsedData, lo, state)
  ELSE ScanRows(parsedData, ((lo + hi) \div 2) + 1, hi,
                ScanRows(parsedData, lo, (lo + hi) \div 2, state))

\* The duplicates list after the loop
ScanAllRows(parsedData) ==
  ScanRows(parsedData, 1, Len(parsedData.rows), [seen |-> {}, duplicates |-> <<>>]).duplicates

\* Variant: the score is the base score, without the cardinality penalty
findDuplicatesNoCardinality(parsedData) ==
  LET rs == parsedData.rows
      duplicates == ScanAllRows(parsedData)
      baseScore == Sub(Int2Num(100),
                       Mul(Div(Int2Num(Len(duplicates)), Int2Num(Len(rs))), Int2Num(100)))
  IN  [count |-> Len(duplicates),
       percentage |-> Mul(Div(Int2Num(Len(duplicates)), Int2Num(Len(rs))), Int2Num(100)),
       duplicates |-> duplicates,
       uniquenessScore |-> MathMax(Int2Num(0), baseScore)]

findDuplicates(parsedData) ==
  LET hs == parsedData.headers
      rs == parsedData.rows
      duplicates == ScanAllRows(parsedData)
      ColumnPenalty(h) ==
        LET columnValues == SelectSeq(Column(parsedData, h), NonNull)
            uniqueValues == Cardinality(Range(columnValues))
            uniqueRatio  == Div(Int2Num(uniqueValues), Int2Num(Len(columnValues)))
        IN  IF Len(columnValues) > 0 /\ Lt(uniqueRatio, Fin(8, 10))
            THEN Mul(Sub(Fin(8, 10), uniqueRatio), Int2Num(10))
            ELSE Int2Num(0)
      totalUniquenessPenalty == SumSeq([j \in 1..Len(hs) |-> ColumnPenalty(hs[j])])
      baseScore == Sub(Int2Num(100),
                       Mul(Div(Int2Num(Len(duplicates)), Int2Num(Len(rs))), Int2Num(100)))
  IN  [count |-> Len(duplicates),
       percentage |-> Mul(Div(Int2Num(Len(duplicates)), Int2Num(Len(rs))), Int2Num(100)),
       duplicates |-> duplicates,
       uniquenessScore |-> MathMax(Int2Num(0), Sub(baseScore, totalUniquenessPenalty))]

\* analyzeDataTypes
analyzeDataTypes(parsedData) ==
  [h \in Range(parsedData.headers) |-> detectDataType(Column(parsedData, h))]

-----------------------------------------------------------------------------
(* calculateStatistics, calculateMode, detectOutliers *)

\* [...numericValues].sort((a, b) => a - b), a stable ascending sort.
\* SortedPosition gives each index the place its element takes: after every
\* smaller element and after the equal ones that precede it.  (SubSeq over
\* the whole length yields the sequence as an explicit tuple.)
SortedPosition(arr) ==
  SubSeq([i \in 1..Len(arr) |->
            Cardinality({j \in 1..Len(arr) : Lt(arr[j], arr[i])})
              + Cardinality({j \in 1..i : arr[j] = arr[i]})],
         1, Len(arr))

PlaceBy(arr, position) ==
  SubSeq([k \in 1..Len(arr) |-> arr[CHOOSE i \in 1..Len(arr) : position[i] = k]],
         1, Len(arr))

\* Variant: the values are left in their input order
SortNumericUnsorted(arr) == arr

SortNumeric(arr) == PlaceBy(arr, SortedPosition(arr))

\* One pass of the values.forEach body of calculateMode, for index i: the
\* value becomes the mode when its running frequency exceeds maxFreq.
ModeStep(values, i, state) ==
  LET freq == Cardinality({j \in 1..i : values[j] = values[i]})
  IN  IF freq > state.maxFreq THEN [maxFreq |-> freq, mode |-> values[i]] ELSE state

\* The loop over indices lo..hi, in order, halved like ScanRows (before index
\* lo no frequency exceeds lo - 1)
RECURSIVE ModeScan(_, _, _, _)
ModeScan(values, lo, hi, state) ==
  IF lo > hi \/ state.maxFreq >= lo THEN state
  ELSE IF lo = hi THEN ModeStep(values, lo, state)
  ELSE ModeScan(values, ((lo + hi) \div 2) + 1, hi,
                ModeScan(values, lo, (lo + hi) \div 2, state))

\* mode starts as null, written NaN here
calculateMode(values) ==
  ModeScan(values, 1, Len(values), [maxFreq |-> 0, mode |-> NaN]).mode

\* The coercion calculateStatistics and detectOutliers apply to one value
Coerce(v) == IF typeof(v) = "number" THEN Int2Num(v.n) ELSE parseFloat(v)

NoStatistics == [isNull |-> TRUE]

\* The statistics of a non-empty list of numbers and its sorted copy.
\* stdDev (the square root of variance) is not represented.
StatisticsOf(numericValues, sorted, mean) ==
  [isNull |-> FALSE,
   count |-> Len(numericValues),
   min |-> sorted[1],
   max |-> sorted[Len(sorted)],
   mean |-> mean,
   \* Math.floor(N * 0.5)
   median |-> sorted[(Len(sorted) \div 2) + 1],
   mode |-> calculateMode(numericValues),
   variance |-> Div(SumSeq([i \in 1..Len(numericValues) |->
                              Mul(Sub(numericValues[i], mean), Sub(numericValues[i], mean))]),
                    Int2Num(Len(numericValues))),
   \* Math.floor(N * 0.25), Math.floor(N * 0.5), Math.floor(N * 0.75)
   q1 |-> sorted[(Len(sorted) \div 4) + 1],
   q2 |-> sorted[(Len(sorted) \div 2) + 1],
   q3 |-> sorted[((3 * Len(sorted)) \div 4) + 1],
   range |-> Sub(sorted[Len(sorted)], sorted[1])]

StatisticsOfNumeric(numericValues) ==
  IF Len(numericValues) = 0 THEN NoStatistics
  ELSE StatisticsOf(numericValues, SortNumeric(numericValues),
                    Div(SumSeq(numericValues), Int2Num(Len(numericValues))))

\* map(v => typeof v === 'number' ? v : parseFloat(v))
CoerceAll(vals) == [i \in 1..Len(vals) |-> Coerce(vals[i])]

\* Variant: the sort is applied to the array that was passed in (an array of
\* numbers ends in ascending order)
ValuesSortedInPlace(values) ==
  IF \A i \in 1..Len(values) : typeof(values[i]) = "number"
  THEN PlaceBy(values, SortedPosition(CoerceAll(values)))
  ELSE values

\* The array passed to calculateStatistics, after the call: filter and map
\* return new arrays and the sort works on a spread copy of the last one, so
\* the array passed in keeps its elements and their order.
ValuesAfterSort(values) == values

calculateStatistics(values) ==
  StatisticsOfNumeric(SelectSeq(CoerceAll(SelectSeq(values, NonNull)),
                                LAMBDA x : ~isNaNNumber(x)))

\* Variant: a value equal to a bound is flagged too
OutlierListInclusive(nums, lowerBound, upperBound) ==
  LET IsOutlier(i) ==
        ~isNaNNumber(nums[i]) /\ (Le(nums[i], lowerBound) \/ Le(upperBound, nums[i]))
      Entry(i) == [index |-> i - 1,
                   value |-> nums[i],
                   type |-> IF Le(nums[i], lowerBound) THEN "low" ELSE "high"]
  IN  [j \in 1..Cardinality({i \in 1..Len(nums) : IsOutlier(i)}) |->
         Entry(CHOOSE i \in 1..Len(nums) :
                 IsOutlier(i) /\ Cardinality({m \in 1..i : IsOutlier(m)}) = j)]

\* The values.forEach loop of detectOutliers over the coerced values
OutlierList(nums, lowerBound, upperBound) ==
  LET IsOutlier(i) ==
        ~isNaNNumber(nums[i]) /\ (Lt(nums[i], lowerBound) \/ Gt(nums[i], upperBound))
      Entry(i) == [index |-> i - 1,
                   value |-> nums[i],
                   type |-> IF Lt(nums[i], lowerBound) THEN "low" ELSE "high"]
  IN  [j \in 1..Cardinality({i \in 1..Len(nums) : IsOutlier(i)}) |->
         Entry(CHOOSE i \in 1..Len(nums) :
                 IsOutlier(i) /\ Cardinality({m \in 1..i : IsOutlier(m)}) = j)]

OutlierReport(values, outliers, lowerBound, upperBound) ==
  [outliers |-> outliers,
   count |-> Len(outliers),
   percentage |-> Mul(Div(Int2Num(Len(outliers)), Int2Num(Len(values))), Int2Num(100)),
   lowerBound |-> lowerBound,
   upperBound |-> upperBound]

OutliersWithin(values, lowerBound, upperBound) ==
  OutlierReport(values, OutlierList(CoerceAll(values), lowerBound, upperBound),
                lowerBound, upperBound)

\* Variant: without statistics the report is still computed from the values
OutliersFromUnguarded(values, stats) ==
  IF stats.isNull
  THEN OutlierReport(values, <<>>, NaN, NaN)
  ELSE OutliersWithin(values,
                      Sub(stats.q1, Mul(Fin(3, 2), Sub(stats.q3, stats.q1))),
                      Add(stats.q3, Mul(Fin(3, 2), Sub(stats.q3, stats.q1))))

\* iqr = q3 - q1; the bounds are q1 - 1.5 * iqr and q3 + 1.5 * iqr
OutliersFrom(values, stats) ==
  IF stats.isNull
  THEN [outliers |-> <<>>, count |-> 0, percentage |-> Int2Num(0)]
  ELSE OutliersWithin(values,
                      Sub(stats.q1, Mul(Fin(3, 2), Sub(stats.q3, stats.q1))),
                      Add(stats.q3, Mul(Fin(3, 2), Sub(stats.q3, stats.q1))))

detectOutliers(values) == OutliersFrom(values, calculateStatistics(values))

-----------------------------------------------------------------------------
(* analyzeDataQuality *)

\* The format class the validity check gives the text of one value
FormatClass(str) ==
  IF str # <<>> /\ AllIn(str, Digits) THEN "numeric"
  ELSE IF str # <<>> /\ \A i \in 1..Len(str) : IsLower(str[i]) THEN "lowercase"
  ELSE IF str # <<>> /\ \A i \in 1..Len(str) : IsUpper(str[i]) THEN "uppercase"
  ELSE IF /\ str # <<>>
          /\ IsLower(str[1])
          /\ \A i \in 2..Len(str) : IsLower(str[i]) \/ str[i] \in WhiteSpace
       THEN "lowercase-phrase"
  ELSE IF /\ str # <<>>
          /\ IsUpper(str[1])
          /\ \A i \in 2..Len(str) : IsLower(str[i]) \/ str[i] \in WhiteSpace
       THEN "titlecase-phrase"
  ELSE "mixed"

\* '', 'null', 'NULL', 'N/A', 'n/a', '-'
NullTokens ==
  { <<>>, <<"n", "u", "l", "l">>, <<"N", "U", "L", "L">>, <<"N", "/", "A">>,
    <<"n", "/", "a">>, <<"-">> }

\* The validity issues one column adds
ValidityIssuesOf(parsedData, typeInfo, column) ==
  LET columnValues == SelectSeq(Column(parsedData, column), NonNull)
      formats == {FormatClass(StringOf(columnValues[i])) : i \in 1..Len(columnValues)}
      nullVariations == Len(SelectSeq(columnValues,
                                      LAMBDA v : typeof(v) = "string" /\ v.s \in NullTokens))
  IN  IF Len(columnValues) = 0 THEN 0
      ELSE (IF typeInfo.type = "string" /\ Cardinality(formats) > 1 THEN 2 ELSE 0)
         + (IF nullVariations > 0 /\ nullVariations < Len(columnValues) THEN 1 ELSE 0)

\* v.toString().match(/[\$,()]/)
MatchesSymbol(v) ==
  \/ includes(StringOf(v), "$") \/ includes(StringOf(v), ",")
  \/ includes(StringOf(v), "(") \/ includes(StringOf(v), ")")

\* The consistency score's test of one number-typed column (mixed number formatting)
HasFormatInconsistency(parsedData, column) ==
  LET columnValues == SelectSeq(Column(parsedData, column), ToBoolean)
      withSymbols == Len(SelectSeq(columnValues, MatchesSymbol))
      withoutSymbols == Len(columnValues) - withSymbols
  IN  withSymbols > 0 /\ withoutSymbols > 0

\* The overall score's test of one number-typed column (format consistency check)
HasFormatIssuePenalty(parsedData, column) ==
  LET columnValues == Column(parsedData, column)
      formattedCount ==
        Len(SelectSeq(columnValues,
                      LAMBDA v : ToBoolean(v) /\ (\/ includes(StringOf(v), "$")
                                                  \/ includes(StringOf(v), ",")
                                                  \/ includes(StringOf(v), "("))))
  IN  formattedCount > 0 /\ formattedCount < Len(columnValues)

\* The issue list's count of formatted and unformatted values of one column
FormattedValues(parsedData, column) ==
  Len(SelectSeq(SelectSeq(Column(parsedData, column), ToBoolean), MatchesSymbol))

UnformattedValues(parsedData, column) ==
  Len(SelectSeq(SelectSeq(Column(parsedData, column), ToBoolean), LAMBDA v : ~MatchesSymbol(v)))

\* Variant: the branch for 25% is absent
MissingSeverityNoQuarter(percentage) ==
  IF Gt(percentage, Int2Num(50)) THEN "high"
  ELSE IF Gt(percentage, Int2Num(10)) THEN "medium"
  ELSE "low"

\* Variant: the thresholds are inclusive
MissingSeverityInclusive(percentage) ==
  IF Le(Int2Num(25), percentage) THEN "high"
  ELSE IF Le(Int2Num(10), percentage) THEN "medium"
  ELSE "low"

\* severity of a missing issue
MissingSeverity(percentage) ==
  IF Gt(percentage, Int2Num(50)) THEN "high"
  ELSE IF Gt(percentage, Int2Num(25)) THEN "high"
  ELSE IF Gt(percentage, Int2Num(10)) THEN "medium"
  ELSE IF Gt(percentage, Int2Num(0)) THEN "low"
  ELSE "low"

\* Variant: the threshold is inclusive
InconsistentSeverityInclusive(confidence) ==
  IF Le(confidence, Fin(75, 100)) THEN "high" ELSE "medium"

\* severity of a mixed-type issue
InconsistentSeverity(confidence) ==
  IF Lt(confidence, Fin(75, 100)) THEN "high" ELSE "medium"

\* Variant: the thresholds are inclusive
OutlierSeverityInclusive(percentage) ==
  IF Le(Int2Num(5), percentage) THEN "high"
  ELSE IF Le(Int2Num(2), percentage) THEN "medium"
  ELSE "low"

\* severity of an outlier issue
OutlierSeverity(percentage) ==
  IF Gt(percentage, Int2Num(5)) THEN "high"
  ELSE IF Gt(percentage, Int2Num(2)) THEN "medium"
  ELSE "low"

\* The order in which Object.entries lists the per-column objects
EntriesOrder(hs) == OwnKeys(hs)

\* columnStats[header]; statistics and outliers exist for number columns only
ColumnStat(columnValues, typeInfo, missing) ==
  IF typeInfo.type = "number"
  THEN [type |-> typeInfo,
        missing |-> missing,
        unique |-> Cardinality(Range(SelectSeq(columnValues, NonNull))),
        uniquePercentage |-> Mul(Div(Int2Num(Cardinality(Range(columnValues))),
                                     Int2Num(Len(columnValues))), Int2Num(100)),
        statistics |-> calculateStatistics(columnValues),
        outliers |-> detectOutliers(columnValues)]
  ELSE [type |-> typeInfo,
        missing |-> missing,
        unique |-> Cardinality(Range(SelectSeq(columnValues, NonNull))),
        uniquePercentage |-> Mul(Div(Int2Num(Cardinality(Range(columnValues))),
                                     Int2Num(Len(columnValues))), Int2Num(100))]

ColumnStats(parsedData, missingValues, dataTypes) ==
  [h \in Range(parsedData.headers) |->
     ColumnStat(Column(parsedData, h), dataTypes[h], missingValues.byColumn[h])]

IsNumberColumn(columnStats, h) == columnStats[h].type.type = "number"

\* validityScore
ValidityScore(parsedData, columnStats, keys) ==
  MathMax(Int2Num(0),
          Sub(Int2Num(100),
              SumSeq([i \in 1..Len(keys) |->
                        Int2Num(ValidityIssuesOf(parsedData, columnStats[keys[i]].type, keys[i]))])))

\* consistencyScore
ConsistencyScore(parsedData, dataTypes, columnStats) ==
  LET hset == Range(parsedData.headers)
      mixedTypeColumns == Cardinality({h \in hset : MixedTypes(dataTypes[h])})
      mixedTypesPenalty ==
        Mul(Div(Int2Num(mixedTypeColumns), Int2Num(Len(parsedData.headers))), Int2Num(100))
      formatInconsistencyPenalty ==
        3 * Cardinality({h \in hset : /\ IsNumberColumn(columnStats, h)
                                      /\ HasFormatInconsistency(parsedData, h)})
  IN  MathMax(Int2Num(0),
              Sub(Sub(Int2Num(100), mixedTypesPenalty), Int2Num(formatInconsistencyPenalty)))

\* overallScore
OverallScore(parsedData, missingValues, columnStats, completenessScore, uniquenessScore, validityScore, consistencyScore) ==
  LET hset == Range(parsedData.headers)
      columnsWithMissing == Cardinality({h \in hset : missingValues.byColumn[h].count > 0})
      missingColumnsPenalty ==
        Mul(Div(Int2Num(columnsWithMissing), Int2Num(Len(parsedData.headers))), Int2Num(20))
      formatIssuesPenalty ==
        5 * Cardinality({h \in hset : /\ IsNumberColumn(columnStats, h)
                                      /\ HasFormatIssuePenalty(parsedData, h)})
      baseScore ==
        Add(Add(Add(Mul(completenessScore, Fin(40, 100)), Mul(uniquenessScore, Fin(30, 100))),
                Mul(validityScore, Fin(20, 100))),
            Mul(consistencyScore, Fin(10, 100)))
  IN  MathMax(Int2Num(0),
              Sub(Sub(baseScore, missingColumnsPenalty), Int2Num(formatIssuesPenalty)))

\* A description is modelled by the values its template interpolates.
MissingIssue(column, data) ==
  [type |-> "missing",
   severity |-> MissingSeverity(data.percentage),
   column |-> column,
   description |-> <<column, data.count, toFixed1(data.percentage)>>,
   count |-> data.count]

DuplicateIssue(duplicates) ==
  [type |-> "duplicate",
   severity |-> "high",
   description |-> <<duplicates.count, toFixed1(duplicates.percentage)>>,
   count |-> duplicates.count]

InconsistentIssue(column, type) ==
  [type |-> "inconsistent",
   severity |-> InconsistentSeverity(type.confidence),
   column |-> column,
   description |-> <<column, toFixed0(Mul(type.confidence, Int2Num(100))), type.type>>,
   confidence |-> type.confidence]

FormatIssue(column, formatted, unformatted) ==
  [type |-> "format",
   severity |-> "low",
   column |-> column,
   description |-> <<column, formatted, unformatted>>,
   count |-> formatted + unformatted]

OutlierIssue(column, outliers) ==
  [type |-> "outlier",
   severity |-> OutlierSeverity(outliers.percentage),
   column |-> column,
   description |-> <<column, outliers.count, toFixed1(outliers.percentage)>>,
   count |-> outliers.count]

\* The five loops that fill the issues list, each over Object.entries of a
\* per-column object (keys: the order of its entries)
MissingIssues(missingValues, keys) ==
  LET kept == SelectSeq(keys, LAMBDA h : missingValues.byColumn[h].count > 0)
  IN  [i \in 1..Len(kept) |-> MissingIssue(kept[i], missingValues.byColumn[kept[i]])]

DuplicateIssues(duplicates) ==
  IF duplicates.count > 0 THEN <<DuplicateIssue(duplicates)>> ELSE <<>>

InconsistentIssues(dataTypes, keys) ==
  LET kept == SelectSeq(keys, LAMBDA h : MixedTypes(dataTypes[h]))
  IN  [i \in 1..Len(kept) |-> InconsistentIssue(kept[i], dataTypes[kept[i]])]

FormatIssues(parsedData, columnStats, keys) ==
  LET kept == SelectSeq(keys, LAMBDA h : /\ IsNumberColumn(columnStats, h)
                                         /\ FormattedValues(parsedData, h) > 0
                                         /\ UnformattedValues(parsedData, h) > 0)
  IN  [i \in 1..Len(kept) |-> FormatIssue(kept[i], FormattedValues(parsedData, kept[i]),
                                          UnformattedValues(parsedData, kept[i]))]

OutlierIssues(columnStats, keys) ==
  LET kept == SelectSeq(keys, LAMBDA h : /\ "outliers" \in DOMAIN columnStats[h]
                                         /\ columnStats[h].outliers.count > 0)
  IN  [i \in 1..Len(kept) |-> OutlierIssue(kept[i], columnStats[kept[i]].outliers)]

GenerateIssues(parsedData, missingValues, duplicates, dataTypes, columnStats, keys) ==
  MissingIssues(missingValues, keys)
    \o DuplicateIssues(duplicates)
    \o InconsistentIssues(dataTypes, keys)
    \o FormatIssues(parsedData, columnStats, keys)
    \o OutlierIssues(columnStats, keys)

\* The returned object.  Its explanations and recommendations are not modelled.
QualityAnalysis(parsedData, missingValues, duplicates, dataTypes, columnStats, validityScore, consistencyScore, issues) ==
  [overallScore |-> OverallScore(parsedData, missingValues, columnStats,
                                 missingValues.completenessScore, duplicates.uniquenessScore,
                                 validityScore, consistencyScore),
   scores |-> [completeness |-> missingValues.completenessScore,
               uniqueness |-> duplicates.uniquenessScore,
               validity |-> validityScore,
               consistency |-> consistencyScore],
   missingValues |-> missingValues,
   duplicates |-> duplicates,
   dataTypes |-> dataTypes,
   columnStats |-> columnStats,
   issues |-> issues,
   summary |-> [totalRows |-> Len(parsedData.rows),
                totalColumns |-> Len(parsedData.headers),
                totalCells |-> Len(parsedData.rows) * Len(parsedData.headers),
                missingCells |-> missingValues.total,
                duplicateRows |-> duplicates.count,
                issueCount |-> Len(issues)]]

AnalyzeColumns(parsedData, missingValues, duplicates, dataTypes, columnStats) ==
  QualityAnalysis(parsedData, missingValues, duplicates, dataTypes, columnStats,
                  ValidityScore(parsedData, columnStats, EntriesOrder(parsedData.headers)),
                  ConsistencyScore(parsedData, dataTypes, columnStats),
                  GenerateIssues(parsedData, missingValues, duplicates, dataTypes, columnStats,
                                 EntriesOrder(parsedData.headers)))

AnalyzeReports(parsedData, missingValues, duplicates, dataTypes) ==
  AnalyzeColumns(parsedData, missingValues, duplicates, dataTypes,
                 ColumnStats(parsedData, missingValues, dataTypes))

analyzeDataQuality(parsedData) ==
  AnalyzeReports(parsedData, findMissingValues(parsedData), findDuplicates(parsedData),
                 analyzeDataTypes(parsedData))

-----------------------------------------------------------------------------
(* The bounded set of datasets the specifications draw their input from *)

MaxRows == 3

TallRepeat == 9

PairMaxRows == 3

Hid == <<"i", "d">>

Hage == <<"a", "g", "e">>

H1 == <<"1">>

H2 == <<"2">>

\* Lists of distinct column names; "1" and "2" are array-index keys.
HeaderLists == { <<Hid>>, <<Hid, Hage>>, <<H2, H1>>, <<Hage, H1>> }

Abc == StrCell(<<"a", "b", "c">>)

Blank == StrCell(<<" ">>)

Dollar5 == StrCell(<<"$", "5">>)

\* The cells of one dataset come from one of these sets.
Palettes ==
  { {Null, NumCell(1)},
    {Undefined, Blank},
    {StrCell(<<>>), Abc},
    {Blank, NumCell(1)},
    {NumCell(1), Abc},
    {NumCell(1), Dollar5},
    {NumCell(1), NumCell(100)} }

RowSet(hs, palette) == [Range(hs) -> palette]

SeqsUpTo(S, n) == UNION {[1..m -> S] : m \in 0..n}

Repeat(row, n) == [i \in 1..n |-> row]

\* Every sequence of at most MaxRows rows, and every run of up to TallRepeat
\* copies of one row followed by at most one further row.
RowSeqs(hs, palette) ==
  SeqsUpTo(RowSet(hs, palette), MaxRows)
    \cup { Repeat(b, n) \o tl : b \in RowSet(hs, palette), n \in 1..TallRepeat,
                                tl \in SeqsUpTo(RowSet(hs, palette), 1) }

\* The dataset of the specification's end-to-end example
ExampleHeaders == <<Hid, Hage>>

ExampleRow(idv, agev) == [h \in {Hid, Hage} |-> IF h = Hid THEN idv ELSE agev]

ExampleRows ==
  << ExampleRow(NumCell(1), NumCell(30)),
     ExampleRow(NumCell(2), Null),
     ExampleRow(NumCell(1), NumCell(30)) >>

parsedData == [headers |-> headers, rows |-> rows]

NoResult == [none |-> TRUE]

\* data/db.json before anything was written: the file does not exist
NoFile == [absent |-> TRUE]

-----------------------------------------------------------------------------
(* Specification: a dataset is drawn, then one exported function is applied *)

Init ==
  /\ \/ \E hs \in HeaderLists, p \in Palettes :
          headers = hs /\ rows \in RowSeqs(hs, p)
     \/ headers = ExampleHeaders /\ rows = ExampleRows
  /\ other = <<>>
  /\ cells = <<>>
  /\ call = "none"
  /\ result = NoResult
  /\ dbFile = NoFile
  /\ calls = <<>>

CallFindMissingValues ==
  /\ call = "none"
  /\ call' = "findMissingValues"
  /\ result' = findMissingValues(parsedData)
  /\ UNCHANGED <<headers, rows, other, cells, dbFile, calls>>

CallFindDuplicates ==
  /\ call = "none"
  /\ call' = "findDuplicates"
  /\ result' = findDuplicates(parsedData)
  /\ headers' = HeadersAfterHash(parsedData)
  /\ UNCHANGED <<rows, other, cells, dbFile, calls>>

\* analyzeDataQuality hashes the rows through findDuplicates; the arrays it
\* hands to calculateStatistics and detectOutliers are built by rows.map.
CallAnalyzeDataQuality ==
  /\ call = "none"
  /\ call' = "analyzeDataQuality"
  /\ result' = analyzeDataQuality(parsedData)
  /\ headers' = HeadersAfterHash(parsedData)
  /\ UNCHANGED <<rows, other, cells, dbFile, calls>>

Next == CallFindMissingValues \/ CallFindDuplicates \/ CallAnalyzeDataQuality

Spec == Init /\ [][Next]_vars

-----------------------------------------------------------------------------
(* Specification: two datasets with the same headers and the same number of *)
(* rows are drawn, and findMissingValues is applied to both                 *)

PairHeaderLists == { <<Hid>>, <<Hid, Hage>> }

PairPalette == {Undefined, NumCell(1)}

PairInit ==
  /\ headers \in PairHeaderLists
  /\ \E m \in 1..PairMaxRows :
       /\ rows \in [1..m -> RowSet(headers, PairPalette)]
       /\ other \in [1..m -> RowSet(headers, PairPalette)]
  /\ cells = <<>>
  /\ call = "none"
  /\ result = NoResult
  /\ dbFile = NoFile
  /\ calls = <<>>

CompareMissingValues ==
  /\ call = "none"
  /\ call' = "compare"
  /\ result' = [first |-> findMissingValues(parsedData),
                second |-> findMissingValues([headers |-> headers, rows |-> other])]
  /\ UNCHANGED <<headers, rows, other, cells, dbFile, calls>>

PairNext == CompareMissingValues

SpecPair == PairInit /\ [][PairNext]_vars

-----------------------------------------------------------------------------
(* Specification: the cells of one column are drawn, then detectDataType,   *)
(* calculateStatistics or detectOutliers is applied to them                 *)

MaxTypeLen == 4

MaxNumLen == 5

DateText == StrCell(<<"2", "0", "2", "4", "-", "0", "1", "-", "1", "5">>)

BadDateText == StrCell(<<"2", "0", "2", "4", "-", "1", "3", "-", "4", "5">>)

One == StrCell(<<"1">>)

UpperNo == StrCell(<<"N", "O">>)

\* Values of every type and every kind of missing cell
TypePalettes ==
  { {Null, BoolCell(TRUE), One, NumCell(1), DateText, Abc},
    {Undefined, StrCell(<<>>), Blank, UpperNo, NumCell(0), BadDateText} }

\* Numbers, with a text that is no number
NumberPalettes ==
  { {NumCell(1), NumCell(2), NumCell(3), NumCell(4)},
    {NumCell(1), NumCell(100), NumCell(-100), Abc},
    {NumCell(-1), NumCell(2), NumCell(4), NumCell(7)} }

ColumnSeqs ==
  UNION {SeqsUpTo(p, MaxTypeLen) : p \in TypePalettes}
    \cup UNION {SeqsUpTo(p, MaxNumLen) : p \in NumberPalettes}

ColumnInit ==
  /\ headers = <<>>
  /\ rows = <<>>
  /\ other = <<>>
  /\ cells \in ColumnSeqs
  /\ call = "none"
  /\ result = NoResult
  /\ dbFile = NoFile
  /\ calls = <<>>

CallDetectDataType ==
  /\ call = "none"
  /\ call' = "detectDataType"
  /\ result' = detectDataType(cells)
  /\ UNCHANGED <<headers, rows, other, cells, dbFile, calls>>

CallCalculateStatistics ==
  /\ call = "none"
  /\ call' = "calculateStatistics"
  /\ result' = calculateStatistics(cells)
  /\ cells' = ValuesAfterSort(cells)
  /\ UNCHANGED <<headers, rows, other, dbFile, calls>>

CallDetectOutliers ==
  /\ call = "none"
  /\ call' = "detectOutliers"
  /\ result' = detectOutliers(cells)
  /\ cells' = ValuesAfterSort(cells)
  /\ UNCHANGED <<headers, rows, other, dbFile, calls>>

ColumnNext == CallDetectDataType \/ CallCalculateStatistics \/ CallDetectOutliers

SpecColumn == ColumnInit /\ [][ColumnNext]_vars

-----------------------------------------------------------------------------
(* Specification: a dataset of number columns, a run of equal rows followed *)
(* by a short tail, is drawn and analyzeDataQuality is applied              *)

TailRows == 1

\* The lengths of the run of equal rows
RunLengths == {0, 3, 4, 18, 19, 48, 49}

FiveParen == StrCell(<<"5", ")">>)

NumericHeaderLists == { <<Hid>>, <<Hid, Hage>> }

\* Pairs of the value the run is made of and the value the tail may add
NumericPalettes ==
  { <<NumCell(1), NumCell(100)>>,
    <<NumCell(1), Dollar5>>,
    <<NumCell(0), Dollar5>>,
    <<NumCell(1), FiveParen>>,
    <<NumCell(1), Null>>,
    <<One, NumCell(100)>> }

NumericRowSeqs(hs, palette) ==
  { Repeat([h \in Range(hs) |-> palette[1]], n) \o tl :
      n \in RunLengths, tl \in SeqsUpTo(RowSet(hs, Range(palette)), TailRows) }

NumericInit ==
  /\ \E hs \in NumericHeaderLists, p \in NumericPalettes :
       headers = hs /\ rows \in NumericRowSeqs(hs, p)
  /\ other = <<>>
  /\ cells = <<>>
  /\ call = "none"
  /\ result = NoResult
  /\ dbFile = NoFile
  /\ calls = <<>>

NumericNext == CallAnalyzeDataQuality

SpecNumeric == NumericInit /\ [][NumericNext]_vars

-----------------------------------------------------------------------------
(* Specification: a short dataset whose cells include a number and the text *)
(* of the same number is drawn, and findDuplicates is applied               *)

FingerprintRows == 2

FingerprintHeaderLists == { <<Hid, Hage>>, <<Hage, Hid, H1>> }

FingerprintPalette == {NumCell(1), StrCell(<<"1">>), NumCell(2), Undefined}

FingerprintInit ==
  /\ headers \in FingerprintHeaderLists
  /\ rows \in SeqsUpTo(RowSet(headers, FingerprintPalette), FingerprintRows)
  /\ other = <<>>
  /\ cells = <<>>
  /\ call = "none"
  /\ result = NoResult
  /\ dbFile = NoFile
  /\ calls = <<>>

FingerprintNext == CallFindDuplicates

SpecFingerprint == FingerprintInit /\ [][FingerprintNext]_vars

-----------------------------------------------------------------------------
(* Specification: a dataset or a column is drawn, then one of the analysis  *)
(* functions is applied to its input                                        *)

FrameLen == 2

FramePalette == {NumCell(2), NumCell(1), Abc}

FrameInit ==
  /\ headers \in PairHeaderLists
  /\ \/ rows \in SeqsUpTo(RowSet(headers, FramePalette), FrameLen) /\ cells = <<>>
     \/ rows = <<>> /\ cells \in SeqsUpTo(FramePalette, FrameLen)
  /\ other = <<>>
  /\ call = "none"
  /\ result = NoResult
  /\ dbFile = NoFile
  /\ calls = <<>>

CallAnalyzeDataTypes ==
  /\ call = "none"
  /\ call' = "analyzeDataTypes"
  /\ result' = analyzeDataTypes(parsedData)
  /\ UNCHANGED <<headers, rows, other, cells, dbFile, calls>>

FrameNext ==
  \/ CallFindMissingValues
  \/ CallFindDuplicates
  \/ CallAnalyzeDataTypes
  \/ CallAnalyzeDataQuality
  \/ CallCalculateStatistics
  \/ CallDetectOutliers

SpecFrame == FrameInit /\ [][FrameNext]_vars

-----------------------------------------------------------------------------
(* aiIntegration.js: generateAIInsights and its local fallback *)

\* buildAnalysisContext
buildAnalysisContext(dataAnalysis) ==
  [totalIssues |-> Len(dataAnalysis.issues),
   criticalIssues |-> Len(SelectSeq(dataAnalysis.issues, LAMBDA i : i.severity = "high")),
   mediumIssues |-> Len(SelectSeq(dataAnalysis.issues, LAMBDA i : i.severity = "medium")),
   lowIssues |-> Len(SelectSeq(dataAnalysis.issues, LAMBDA i : i.severity = "low")),
   dataSize |-> <<dataAnalysis.summary.totalRows, dataAnalysis.summary.totalColumns>>]

\* The sentence that follows the score in the fallback summary
SummaryVerdict(overallScore) ==
  IF Ge(overallScore, Int2Num(90)) THEN "The data appears to be in excellent condition."
  ELSE IF Ge(overallScore, Int2Num(70))
       THEN "The data quality is acceptable but has some issues to address."
       ELSE "The data quality needs significant improvement before analysis."

\* issues.filter(i => i.severity === 'high').slice(0, 3).map(...)
CriticalIssues(issues) ==
  LET high == SelectSeq(issues, LAMBDA i : i.severity = "high")
      kept == SubSeq(high, 1, IF Len(high) < 3 THEN Len(high) ELSE 3)
  IN  SubSeq([k \in 1..Len(kept) |->
                [issue |-> kept[k].description,
                 impact |-> "This may affect the reliability of analysis results.",
                 severity |-> kept[k].severity]], 1, Len(kept))

\* The three fixed recommendations (their description texts are left out)
FallbackRecommendations ==
  << [title |-> "Address Missing Values", priority |-> "high"],
     [title |-> "Remove Duplicates", priority |-> "medium"],
     [title |-> "Standardize Data Types", priority |-> "medium"] >>

Readiness(overallScore) ==
  [ready |-> Ge(overallScore, Int2Num(70)),
   reason |-> IF Ge(overallScore, Int2Num(70))
              THEN "The data quality is sufficient for initial analysis."
              ELSE "Significant data cleaning is recommended before proceeding with analysis."]

\* getFallbackInsights; now is the reading of the clock.  The summary is the
\* printed score (toFixed(0)) and the sentence after it.
getFallbackInsights(dataAnalysis, now) ==
  [summary |-> <<toFixed0(dataAnalysis.overallScore), SummaryVerdict(dataAnalysis.overallScore)>>,
   criticalIssues |-> CriticalIssues(dataAnalysis.issues),
   recommendations |-> FallbackRecommendations,
   readiness |-> Readiness(dataAnalysis.overallScore),
   generated |-> now,
   model |-> "fallback",
   context |-> buildAnalysisContext(dataAnalysis)]

\* The promise returned by generateAIInsights, once settled
Fulfilled(value) == [state |-> "fulfilled", value |-> value]

Rejected(reason) == [state |-> "rejected", value |-> reason]

CatchErrorRethrow(dataAnalysis, error, now) == Rejected(error)

\* The catch block: the error is logged and the fallback is returned
CatchError(dataAnalysis, error, now) == Fulfilled(getFallbackInsights(dataAnalysis, now))

\* The ways the promise can settle once an error is caught, one for each
\* reading of the clock
CatchOutcomes(dataAnalysis, error, times) ==
  {CatchError(dataAnalysis, error, now) : now \in times}

-----------------------------------------------------------------------------
(* Specification: two datasets are drawn; generateAIInsights is called with *)
(* the analysis of the first and its request fails or succeeds              *)

InsightRows == 2

InsightHeaderLists == { <<Hid>>, <<Hid, Hage>> }

InsightPalettes == { {Blank, NumCell(1)}, {NumCell(1), Abc}, {NumCell(1), NumCell(100)} }

\* Short datasets, and long runs of one row
InsightRowSeqs(hs, palette) ==
  SeqsUpTo(RowSet(hs, palette), InsightRows)
    \cup { Repeat(b, n) : b \in RowSet(hs, palette), n \in (TallRepeat - 1)..TallRepeat }

\* The readings of the clock
Times == {"T1", "T2"}

\* The bodies the insight service may answer with
ServiceInsights == { [model |-> "service", summary |-> <<"A">>] }

\* The analysis passed to generateAIInsights, and the analysis of the other
\* dataset
dataAnalysis == analyzeDataQuality(parsedData)

otherAnalysis == analyzeDataQuality([headers |-> headers, rows |-> other])

InsightsInit ==
  /\ \E hs \in InsightHeaderLists, p \in InsightPalettes :
       /\ headers = hs
       /\ rows \in InsightRowSeqs(hs, p)
       /\ other \in SeqsUpTo(RowSet(hs, p), InsightRows)
  /\ cells = <<>>
  /\ call = "none"
  /\ result = NoResult
  /\ dbFile = NoFile
  /\ calls = <<>>

\* generateAIInsights runs up to its first await: the request is sent
SendRequest ==
  /\ call = "none"
  /\ call' = "fetch"
  /\ UNCHANGED <<headers, rows, other, cells, result, dbFile, calls>>

\* fetch rejects (the service cannot be reached)
FetchRejects ==
  /\ call = "fetch"
  /\ call' = "fetch rejected"
  /\ result' \in CatchOutcomes(dataAnalysis, "Failed to fetch", Times)
  /\ UNCHANGED <<headers, rows, other, cells, dbFile, calls>>

\* fetch resolves with a response whose status is not OK: the function throws
\* inside its own try block
ResponseNotOk ==
  /\ call = "fetch"
  /\ call' = "response not ok"
  /\ result' \in CatchOutcomes(dataAnalysis, "API request failed", Times)
  /\ UNCHANGED <<headers, rows, other, cells, dbFile, calls>>

\* fetch resolves with an OK response: the body is awaited
ResponseOk ==
  /\ call = "fetch"
  /\ call' = "json"
  /\ UNCHANGED <<headers, rows, other, cells, result, dbFile, calls>>

\* response.json() resolves: its value is returned
JsonResolves ==
  /\ call = "json"
  /\ call' = "json resolved"
  /\ \E insights \in ServiceInsights : result' = Fulfilled(insights)
  /\ UNCHANGED <<headers, rows, other, cells, dbFile, calls>>

\* response.json() rejects (the body is not JSON)
JsonRejects ==
  /\ call = "json"
  /\ call' = "json rejected"
  /\ result' \in CatchOutcomes(dataAnalysis, "Unexpected token", Times)
  /\ UNCHANGED <<headers, rows, other, cells, dbFile, calls>>

InsightsNext ==
  \/ SendRequest
  \/ FetchRejects
  \/ ResponseNotOk
  \/ ResponseOk
  \/ JsonResolves
  \/ JsonRejects

SpecInsights == InsightsInit /\ [][InsightsNext]_vars

-----------------------------------------------------------------------------
(* db.js: the JSON file store.  dbFile is the content of data/db.json (the  *)
(* value JSON.parse gives for it, or NoFile); calls lists the calls made so *)
(* far in the order they were started, each with the entry it was given,    *)
(* its position (pc), its local db object and the entry it returns.         *)
(* File names are numbered.  An entry carries the fields the store looks    *)
(* at; the other fields of a posted entry travel with it unchanged.         *)

HistoryCap == 5000

RecentCap == 10

EmptyDB == [quality_history |-> <<>>, recent_analyses |-> <<>>]

\* readDB: the parsed content of the file, or an empty database when
\* reading or parsing throws (the file does not exist yet)
readDB(file) == IF file = NoFile THEN EmptyDB ELSE file

\* arr.slice(0, n)
SliceTo(arr, n) == SubSeq(arr, 1, IF Len(arr) < n THEN Len(arr) ELSE n)

\* toInsert of addQualityHistory: id and ts from the clock, then the fields
\* of the entry spread over them (a ts sent by the caller replaces the
\* clock's)
ToInsert(entry, id) == [id |-> id, ts |-> entry.ts, fileName |-> entry.fileName]

\* The db object of addQualityHistory when writeDB is called
HistoryInserted(db, toInsert) ==
  [db EXCEPT !.quality_history = SliceTo(<<toInsert>> \o @, HistoryCap)]

\* Variant: the entry is put behind the stored ones
NextAppended(entry, recent) == recent \o <<entry>>

\* next of addRecentAnalysis: [entry].concat(db.recent_analyses || [])
NextOf(entry, recent) == <<entry>> \o recent

\* The for loop of addRecentAnalysis from index i on: an item is pushed to
\* dedup unless its fileName is already in seen
RECURSIVE DedupFrom(_, _, _, _)
DedupFrom(next, i, seen, dedup) ==
  IF i > Len(next) THEN dedup
  ELSE IF next[i].fileName \in seen THEN DedupFrom(next, i + 1, seen, dedup)
  ELSE DedupFrom(next, i + 1, seen \cup {next[i].fileName}, Append(dedup, next[i]))

\* The db object of addRecentAnalysis when writeDB is called
RecentInserted(db, entry) ==
  [db EXCEPT !.recent_analyses =
     SliceTo(DedupFrom(NextOf(entry, @), 1, {}, <<>>), RecentCap)]

\* A call that has been started and has not yet got the database from readDB
Started(op, entry) ==
  [op |-> op, entry |-> entry, pc |-> "readDB", db |-> NoFile, saved |-> NoResult]

AllReturned == \A i \in 1..Len(calls) : calls[i].pc = "returned"

\* addRecentAnalysis(entry) is called: it runs up to its await of readDB
StartAddRecentAnalysis(fileName) ==
  /\ calls' = Append(calls, Started("addRecentAnalysis",
                       [fileName |-> fileName, analyzedAt |-> Len(calls) + 1]))
  /\ UNCHANGED <<headers, rows, other, cells, call, result, dbFile>>

\* addQualityHistory(entry) is called: it runs up to its await of readDB
StartAddQualityHistory(fileName) ==
  /\ calls' = Append(calls, Started("addQualityHistory",
                       [fileName |-> fileName, ts |-> Len(calls) + 1]))
  /\ UNCHANGED <<headers, rows, other, cells, call, result, dbFile>>

\* readDB returns to call i, which builds the database it is going to write
\* and calls writeDB.  Date.now() + Math.floor(Math.random() * 1000) is any
\* of Ids.
ReadDBReturns(i, id) ==
  /\ calls[i].pc = "readDB"
  /\ LET db == readDB(dbFile)
         toInsert == ToInsert(calls[i].entry, id)
     IN  calls' = [calls EXCEPT ![i] =
           IF calls[i].op = "addQualityHistory"
           THEN [@ EXCEPT !.pc = "writeDB", !.db = HistoryInserted(db, toInsert),
                          !.saved = toInsert]
           ELSE [@ EXCEPT !.pc = "writeDB", !.db = RecentInserted(db, calls[i].entry),
                          !.saved = calls[i].entry]]
  /\ UNCHANGED <<headers, rows, other, cells, call, result, dbFile>>

\* writeDB of call i replaces the content of the file with the call's db
\* object, and the call returns
WriteDBReturns(i) ==
  /\ calls[i].pc = "writeDB"
  /\ dbFile' = calls[i].db
  /\ calls' = [calls EXCEPT ![i].pc = "returned"]
  /\ UNCHANGED <<headers, rows, other, cells, call, result>>

StoreInit ==
  /\ headers = <<>>
  /\ rows = <<>>
  /\ other = <<>>
  /\ cells = <<>>
  /\ call = "none"
  /\ result = NoResult
  /\ dbFile = NoFile
  /\ calls = <<>>

-----------------------------------------------------------------------------
(* Specification: addRecentAnalysis is called again and again on a store    *)
(* that starts without a file, each call after the one before has returned. *)
(* The k-th call is for a file not seen before (k), for the first file, or, *)
(* among the first FreeCalls calls, for any file seen so far.               *)

RecentCalls == 12

FreeCalls == 3

Ids == {1, 2}

RecentFileNames(k) == {k, 1} \cup (IF k <= FreeCalls THEN 1..k ELSE {})

NextAddRecentAnalysis ==
  /\ AllReturned
  /\ Len(calls) < RecentCalls
  /\ \E fileName \in RecentFileNames(Len(calls) + 1) : StartAddRecentAnalysis(fileName)

ReadDB == \E i \in 1..Len(calls), id \in Ids : ReadDBReturns(i, id)

WriteDB == \E i \in 1..Len(calls) : WriteDBReturns(i)

RecentNext == NextAddRecentAnalysis \/ ReadDB \/ WriteDB

SpecRecent == StoreInit /\ [][RecentNext]_vars

-----------------------------------------------------------------------------
(* Specification: up to StoreCalls calls of addQualityHistory and           *)
(* addRecentAnalysis are made on a store that starts without a file; a call *)
(* may be started while others are waiting for readDB or writeDB, as the    *)
(* two POSTs of the analysis page are.                                      *)

StoreCalls == 3

StoreFileNames == {1, 2}

PostRecentAnalysis ==
  /\ Len(calls) < StoreCalls
  /\ \E fileName \in StoreFileNames : StartAddRecentAnalysis(fileName)

PostQualityHistory ==
  /\ Len(calls) < StoreCalls
  /\ \E fileName \in StoreFileNames : StartAddQualityHistory(fileName)

StoreNext == PostRecentAnalysis \/ PostQualityHistory \/ ReadDB \/ WriteDB

SpecStore == StoreInit /\ [][StoreNext]_vars

-----------------------------------------------------------------------------
(* The POST /api/ai-insights route handler.  The page posts the analysis of *)
(* its dataset; the handler awaits request.json() and then the completion   *)
(* of the narrative service.  result holds what the handler's promise       *)
(* settles to: a response, or the error it rejects with.                    *)

Responded(status, body) == [outcome |-> "response", status |-> status, body |-> body]

Thrown(name) == [outcome |-> "thrown", status |-> 0, body |-> [name |-> name]]

\* What the handler answers when the completion arrives
CompletionBody(analysis, now) ==
  [generated |-> now, model |-> "gpt-4o-mini", context |-> buildAnalysisContext(analysis)]

\* The object literal of the catch block, given the body of the request
FallbackBody(body, now) ==
  [summary |-> <<toFixed0(body.dataAnalysis.overallScore),
                 SummaryVerdict(body.dataAnalysis.overallScore)>>,
   criticalIssues |-> CriticalIssues(body.dataAnalysis.issues),
   recommendations |-> FallbackRecommendations,
   readiness |-> Readiness(body.dataAnalysis.overallScore),
   generated |-> now,
   model |-> "fallback",
   context |-> buildAnalysisContext(body.dataAnalysis),
   error |-> TRUE,
   errorMessage |-> "AI service temporarily unavailable, showing fallback insights"]

\* The names bound where the catch block runs: the parameter of POST, the
\* catch parameter and the module's imports and constant.  body and
\* dataAnalysis are const declarations of the try block and end with it.
CatchBindings == {"request", "error", "NextResponse", "OpenAI", "openai"}

\* The catch block: its object literal reads body first, and reading a name
\* that is not bound throws a ReferenceError out of the handler
CatchBlock(body, now) ==
  IF "body" \in CatchBindings THEN Responded(200, FallbackBody(body, now))
  ELSE Thrown("ReferenceError")

HandlerRows == 2

HandlerInit ==
  /\ headers \in InsightHeaderLists
  /\ \E palette \in InsightPalettes : rows \in SeqsUpTo(RowSet(headers, palette), HandlerRows)
  /\ other = <<>>
  /\ cells = <<>>
  /\ call = "none"
  /\ result = NoResult
  /\ dbFile = NoFile
  /\ calls = <<>>

\* POST is called and runs up to its await of request.json()
ReceivePost ==
  /\ call = "none"
  /\ call' = "request.json"
  /\ UNCHANGED <<headers, rows, other, cells, result, dbFile, calls>>

\* The body is the page's { dataAnalysis }: the handler builds its context
\* and awaits the completion
BodyWithAnalysis ==
  /\ call = "request.json"
  /\ call' = "create"
  /\ UNCHANGED <<headers, rows, other, cells, result, dbFile, calls>>

\* The body has no dataAnalysis: the handler answers 400
BodyWithoutAnalysis ==
  /\ call = "request.json"
  /\ call' = "answered"
  /\ result' = Responded(400, [error |-> "Data analysis is required"])
  /\ UNCHANGED <<headers, rows, other, cells, dbFile, calls>>

\* The completion arrives and the handler answers with it
CompletionResolves ==
  /\ call = "create"
  /\ call' = "create resolved"
  /\ \E now \in Times : result' = Responded(200, CompletionBody(dataAnalysis, now))
  /\ UNCHANGED <<headers, rows, other, cells, dbFile, calls>>

\* The call of the narrative service fails: the catch block runs
CompletionRejects ==
  /\ call = "create"
  /\ call' = "create rejected"
  /\ \E now \in Times : result' = CatchBlock([dataAnalysis |-> dataAnalysis], now)
  /\ UNCHANGED <<headers, rows, other, cells, dbFile, calls>>

HandlerNext ==
  \/ ReceivePost
  \/ BodyWithAnalysis
  \/ BodyWithoutAnalysis
  \/ CompletionResolves
  \/ CompletionRejects

SpecHandler == HandlerInit /\ [][HandlerNext]_vars

-----------------------------------------------------------------------------
(* Properties *)

\* A defined number within [0, 100]
InScoreRange(x) == IsFinite(x) /\ Le(Int2Num(0), x) /\ Le(x, Int2Num(100))

\* Missing in the sense of the specification: null, an absent key, empty
\* text or text made of white space only
CellIsMissing(v) == v = Null \/ v = Undefined \/ (typeof(v) = "string" /\ AllIn(v.s, WhiteSpace))

MissingCount(h) == Cardinality({i \in 1..Len(rows) : CellIsMissing(rows[i][h])})

\* The 1-based position of a column name in headers
HeaderIndex(h) == CHOOSE i \in 1..Len(headers) : headers[i] = h

\* The indices of the issues of one type about one column
IssuesAbout(issues, type, h) ==
  {i \in 1..Len(issues) : issues[i].type = type /\ issues[i].column = h}

GroupRank(type) ==
  CASE type = "missing" -> 1 [] type = "duplicate" -> 2 [] type = "inconsistent" -> 3
    [] type = "format" -> 4 [] type = "outlier" -> 5

Analyzed == call = "analyzeDataQuality"

\* C1: for every dataset with a non-empty header list, zero rows included,
\* analyzeDataQuality returns an overallScore and four dimension scores that
\* are each a number in [0, 100].
C1_ScoresInRange ==
  Analyzed =>
    /\ InScoreRange(result.overallScore)
    /\ InScoreRange(result.scores.completeness)
    /\ InScoreRange(result.scores.uniqueness)
    /\ InScoreRange(result.scores.validity)
    /\ InScoreRange(result.scores.consistency)

\* C2: for a dataset with zero rows and at least one header, every percentage
\* analyzeDataQuality reports (overall missing, per-column missing,
\* duplicates) and every score is a defined number, never NaN.
C2_ZeroRowsDefined ==
  (Analyzed /\ Len(rows) = 0) =>
    /\ IsFinite(result.missingValues.percentage)
    /\ \A h \in Range(headers) : IsFinite(result.missingValues.byColumn[h].percentage)
    /\ IsFinite(result.duplicates.percentage)
    /\ IsFinite(result.overallScore)
    /\ \A s \in {"completeness", "uniqueness", "validity", "consistency"} :
         IsFinite(result.scores[s])

IsExample == Analyzed /\ headers = ExampleHeaders /\ rows = ExampleRows

\* What the end-to-end example reports, but for the severity of the missing
\* issue of column age
ExampleReports(severity) ==
  /\ result.missingValues.byColumn[Hage].count = 1
  /\ toFixed1(result.missingValues.byColumn[Hage].percentage) = Int2Num(333)
  /\ result.duplicates.count = 1
  /\ result.duplicates.duplicates[1].originalRow = 0
  /\ result.duplicates.duplicates[1].duplicateRow = 2
  /\ \E i, j \in 1..Len(result.issues) :
       /\ i < j
       /\ result.issues[i].type = "missing"
       /\ result.issues[i].column = Hage
       /\ result.issues[i].severity = severity
       /\ result.issues[j].type = "duplicate"
       /\ result.issues[j].severity = "high"

\* C3 as stated: for headers [id, age] and rows [{1,30}, {2,null}, {1,30}] the
\* report has age missing once (33.3%), one duplicate (row 2 of row 0), and a
\* missing issue for age of severity low before a duplicate issue of
\* severity high.
C3_ExampleAsStated == IsExample => ExampleReports("low")

\* C3 amended: the same, the missing issue for age having severity high
\* (33.3% is above 25).
C3_Example == IsExample => ExampleReports("high")

C3_Witness == IsExample /\ Len(result.issues) = 2

\* C4: in the issue list the groups come in the order missing, duplicate,
\* inconsistent, format, outlier, and within a group the issues follow the
\* order of their columns in headers.
C4_IssueOrder ==
  Analyzed =>
    \A i, j \in 1..Len(result.issues) :
      i < j =>
        /\ GroupRank(result.issues[i].type) <= GroupRank(result.issues[j].type)
        /\ (result.issues[i].type = result.issues[j].type /\ result.issues[i].type # "duplicate")
             => HeaderIndex(result.issues[i].column) < HeaderIndex(result.issues[j].column)

\* The 0-based indices of the rows with the fingerprint of row r (0-based)
SameFingerprint(r) ==
  {i \in 0..(Len(rows) - 1) : rowHash(headers, rows[i + 1]) = rowHash(headers, rows[r + 1])}

\* C5: in every result of findDuplicates each entry has originalRow <
\* duplicateRow, and originalRow is the smallest index among the rows that
\* share duplicateRow's fingerprint.
C5_FirstOccurrenceIsOriginal ==
  call = "findDuplicates" =>
    \A k \in 1..Len(result.duplicates) :
      LET d == result.duplicates[k]
      IN  /\ d.originalRow < d.duplicateRow
          /\ d.originalRow \in SameFingerprint(d.duplicateRow)
          /\ \A i \in SameFingerprint(d.duplicateRow) : d.originalRow <= i

\* A class of three rows or more: its last row has an earlier duplicate
C5_Witness ==
  /\ call = "findDuplicates"
  /\ \E k, m \in 1..Len(result.duplicates) :
       /\ result.duplicates[k].originalRow = result.duplicates[m].originalRow
       /\ result.duplicates[k].duplicateRow < result.duplicates[m].duplicateRow

\* C6: any two rows i < j that hold the same value under every header are in
\* the same class: row j is reported exactly once as a duplicateRow, and row
\* i is the original of that entry or a duplicate of the same original.
C6_IdenticalRowsShareClass ==
  call = "findDuplicates" =>
    \A i, j \in 0..(Len(rows) - 1) :
      (i < j /\ rows[i + 1] = rows[j + 1]) =>
        LET entries == {k \in 1..Len(result.duplicates) : result.duplicates[k].duplicateRow = j}
        IN  /\ Cardinality(entries) = 1
            /\ \A k \in entries :
                 \/ result.duplicates[k].originalRow = i
                 \/ \E m \in 1..Len(result.duplicates) :
                      /\ result.duplicates[m].duplicateRow = i
                      /\ result.duplicates[m].originalRow = result.duplicates[k].originalRow

\* Two identical rows with a different row between them
C6_Witness ==
  /\ call = "findDuplicates"
  /\ \E i, j \in 0..(Len(rows) - 1) :
       /\ i + 1 < j
       /\ rows[i + 1] = rows[j + 1]
       /\ rowHash(headers, rows[i + 2]) # rowHash(headers, rows[i + 1])
       /\ \E k \in 1..Len(result.duplicates) :
            result.duplicates[k].duplicateRow = j /\ result.duplicates[k].originalRow = i

AnyCellMissing == \E h \in Range(headers) : MissingCount(h) > 0

\* C7: for a dataset with at least one row and one header, findMissingValues
\* returns completenessScore = 100 when no cell is missing and a score
\* strictly below 100 when some cell is missing.
C7_CompletenessFull ==
  (call = "findMissingValues" /\ Len(rows) >= 1 /\ Len(headers) >= 1) =>
    IF AnyCellMissing
    THEN Lt(result.completenessScore, Int2Num(100))
    ELSE result.completenessScore = Int2Num(100)

\* The only missing cells are texts of white space
C7_Witness ==
  /\ call = "findMissingValues"
  /\ AnyCellMissing
  /\ \A h \in Range(headers), i \in 1..Len(rows) :
       CellIsMissing(rows[i][h]) => rows[i][h] = Blank
  /\ Lt(result.completenessScore, Int2Num(100))

ColumnsWithMissing(report) ==
  Cardinality({h \in Range(headers) : report.byColumn[h].count > 0})

ExpectedMissingSeverity(count, total) ==
  IF count * 100 > 25 * total THEN "high"
  ELSE IF count * 100 > 10 * total THEN "medium"
  ELSE "low"

\* C9: analyzeDataQuality emits exactly one missing issue for each column with
\* a missing cell and none for a column without, of severity high above 25%,
\* medium above 10% and at most 25%, low above 0% and at most 10%.
C9_MissingIssues ==
  Analyzed =>
    \A h \in Range(headers) :
      LET about == IssuesAbout(result.issues, "missing", h)
      IN  IF MissingCount(h) > 0
          THEN /\ Cardinality(about) = 1
               /\ \A i \in about :
                    result.issues[i].severity = ExpectedMissingSeverity(MissingCount(h), Len(rows))
          ELSE about = {}

\* A column missing exactly 10% of its cells gets a low issue, another column
\* missing more gets a high one
C9_Witness ==
  /\ Analyzed
  /\ \E i, j \in 1..Len(result.issues) :
       /\ result.issues[i].type = "missing"
       /\ result.issues[i].severity = "low"
       /\ result.issues[j].type = "missing"
       /\ result.issues[j].severity = "high"

\* C10: analyzeDataQuality emits exactly one inconsistent issue for every
\* column whose type info has mixedTypes true and none for any other column,
\* of severity high when the confidence is below 0.75 and medium otherwise.
C10_InconsistentIssues ==
  Analyzed =>
    \A h \in Range(headers) :
      LET about == IssuesAbout(result.issues, "inconsistent", h)
          info  == result.dataTypes[h]
      IN  IF "mixedTypes" \in DOMAIN info /\ info.mixedTypes
          THEN /\ Cardinality(about) = 1
               /\ \A i \in about :
                    result.issues[i].severity =
                      (IF info.confidence.n * 100 < 75 * info.confidence.d
                       THEN "high" ELSE "medium")
          ELSE about = {}

\* A mixed column of confidence exactly 0.75 gets a medium issue
C10_Witness ==
  /\ Analyzed
  /\ \E i \in 1..Len(result.issues) :
       /\ result.issues[i].type = "inconsistent"
       /\ result.issues[i].severity = "medium"
       /\ result.issues[i].confidence = Fin(3, 4)

-----------------------------------------------------------------------------
(* Properties of the column functions *)

\* The values detectDataType classifies (those its filter keeps)
Classified == SelectSeq(cells, NonNull)

\* A native boolean, or text that lower-cased is one of true, false, yes, no, 1, 0
LooksBoolean(v) ==
  typeof(v) = "boolean" \/ (typeof(v) = "string" /\ toLowerCase(v.s) \in BooleanWords)

\* The number of classified values tallied under one type
Tally(ty) == Len(SelectSeq(Classified, LAMBDA v : ClassifyValue(v) = ty))

TypeOrder == <<"number", "string", "boolean", "date">>

\* The first position of TypeOrder whose tally is the highest
DominantIndex ==
  CHOOSE k \in 1..4 :
    /\ \A j \in 1..4 : Tally(TypeOrder[j]) <= Tally(TypeOrder[k])
    /\ \A j \in 1..(k - 1) : Tally(TypeOrder[j]) < Tally(TypeOrder[k])

NumericCells == SelectSeq(CoerceAll(cells), LAMBDA x : ~isNaNNumber(x))

\* The element at 0-based index k of the ascending arrangement of nums
Kth(nums, k) ==
  CHOOSE x \in Range(nums) :
    /\ Cardinality({i \in 1..Len(nums) : Lt(nums[i], x)}) <= k
    /\ k < Cardinality({i \in 1..Len(nums) : Le(nums[i], x)})

FirstQuartile == Kth(NumericCells, Len(NumericCells) \div 4)

SecondQuartile == Kth(NumericCells, Len(NumericCells) \div 2)

ThirdQuartile == Kth(NumericCells, (3 * Len(NumericCells)) \div 4)

ExpectedLowerBound ==
  Sub(FirstQuartile, Mul(Fin(3, 2), Sub(ThirdQuartile, FirstQuartile)))

ExpectedUpperBound ==
  Add(ThirdQuartile, Mul(Fin(3, 2), Sub(ThirdQuartile, FirstQuartile)))

\* The value at 1-based position i is a number strictly outside the bounds
StrictlyOutside(i) ==
  /\ ~isNaNNumber(Coerce(cells[i]))
  /\ \/ Lt(Coerce(cells[i]), ExpectedLowerBound)
     \/ Gt(Coerce(cells[i]), ExpectedUpperBound)

\* C12: detectOutliers flags a numeric value exactly when it is strictly below
\* q1 - 1.5 x IQR (tagged low) or strictly above q3 + 1.5 x IQR (tagged high);
\* a value equal to a bound is never flagged, so with q1 = q3 every numeric
\* value above q1 is flagged high and values equal to q1 are not; the column
\* [1,1,1,1,100] flags only 100, as high.
C12_OutlierBounds ==
  (call = "detectOutliers" /\ NumericCells # <<>>) =>
    /\ {result.outliers[j].index : j \in 1..Len(result.outliers)}
         = {i - 1 : i \in {m \in 1..Len(cells) : StrictlyOutside(m)}}
    /\ \A j \in 1..Len(result.outliers) :
         /\ result.outliers[j].value = Coerce(cells[result.outliers[j].index + 1])
         /\ result.outliers[j].type =
              (IF Lt(result.outliers[j].value, ExpectedLowerBound) THEN "low" ELSE "high")
         /\ result.outliers[j].value # ExpectedLowerBound
         /\ result.outliers[j].value # ExpectedUpperBound
         /\ \A m \in 1..(j - 1) : result.outliers[m].index < result.outliers[j].index
    /\ result.count = Len(result.outliers)
    /\ (FirstQuartile = ThirdQuartile) =>
         \A i \in 1..Len(cells) :
           ~isNaNNumber(Coerce(cells[i])) =>
             /\ Gt(Coerce(cells[i]), FirstQuartile) =>
                  \E j \in 1..Len(result.outliers) :
                    result.outliers[j].index = i - 1 /\ result.outliers[j].type = "high"
             /\ Coerce(cells[i]) = FirstQuartile =>
                  \A j \in 1..Len(result.outliers) : result.outliers[j].index # i - 1
    /\ (cells = <<NumCell(1), NumCell(1), NumCell(1), NumCell(1), NumCell(100)>>) =>
         result.outliers = <<[index |-> 4, value |-> Int2Num(100), type |-> "high"]>>

\* The column of the specification's example: four values on the upper bound
\* are kept, 100 is flagged high
C12_Witness ==
  /\ call = "detectOutliers"
  /\ cells = <<NumCell(1), NumCell(1), NumCell(1), NumCell(1), NumCell(100)>>
  /\ result.upperBound = Int2Num(1)
  /\ result.count = 1
  /\ result.outliers[1].type = "high"

\* C13: for a column with N >= 1 numeric values, calculateStatistics returns
\* q1, q2 and q3 equal to the elements at indices floor(N x 0.25),
\* floor(N x 0.5) and floor(N x 0.75) of the values in ascending numeric order,
\* with no interpolation and median equal to q2; [1,2,3,4] gives q1 = 2,
\* q2 = 3, q3 = 4.
C13_Quartiles ==
  (call = "calculateStatistics" /\ NumericCells # <<>>) =>
    /\ ~result.isNull
    /\ result.q1 = FirstQuartile
    /\ result.q2 = SecondQuartile
    /\ result.q3 = ThirdQuartile
    /\ result.median = result.q2
    /\ {result.q1, result.q2, result.q3} \subseteq Range(NumericCells)
    /\ (cells = <<NumCell(1), NumCell(2), NumCell(3), NumCell(4)>>) =>
         /\ result.q1 = Int2Num(2)
         /\ result.q2 = Int2Num(3)
         /\ result.q3 = Int2Num(4)

\* The values of the example in descending order
C13_Witness ==
  /\ call = "calculateStatistics"
  /\ cells = <<NumCell(4), NumCell(3), NumCell(2), NumCell(1)>>
  /\ result.q1 = Int2Num(2)
  /\ result.q2 = Int2Num(3)
  /\ result.q3 = Int2Num(4)
  /\ result.median = Int2Num(3)

\* C19: when no value of the column can be coerced to a number (an empty or
\* all-missing column included), calculateStatistics returns null and
\* detectOutliers returns an empty outliers list, count 0 and percentage 0.
C19_NoNumbers ==
  (NumericCells = <<>>) =>
    /\ (call = "calculateStatistics") => result = NoStatistics
    /\ (call = "detectOutliers") =>
         result = [outliers |-> <<>>, count |-> 0, percentage |-> Int2Num(0)]

\* A column of text and missing cells, passed to detectOutliers
C19_Witness ==
  /\ call = "detectOutliers"
  /\ Abc \in Range(cells)
  /\ Null \in Range(cells)
  /\ NumericCells = <<>>
  /\ result.count = 0
  /\ result.percentage = Int2Num(0)

-----------------------------------------------------------------------------
(* Properties of the scores *)

\* The cells of column h that findDuplicates counts as values: neither null,
\* absent nor the empty text
ValuesOf(h) ==
  SelectSeq(Column(parsedData, h), LAMBDA v : v \notin {Null, Undefined, StrCell(<<>>)})

\* distinct values / values of column h
UniqueRatio(h) == Div(Int2Num(Cardinality(Range(ValuesOf(h)))), Int2Num(Len(ValuesOf(h))))

\* The penalty the claim gives column h
CardinalityPenalty(h) ==
  IF ValuesOf(h) # <<>> /\ Lt(UniqueRatio(h), Fin(8, 10))
  THEN Mul(Sub(Fin(8, 10), UniqueRatio(h)), Int2Num(10))
  ELSE Int2Num(0)

\* The rows that have an earlier row with the same fingerprint
DuplicateRows == {r \in 0..(Len(rows) - 1) : \E i \in SameFingerprint(r) : i < r}

ExpectedUniqueness ==
  MathMax(Int2Num(0),
          Sub(Sub(Int2Num(100),
                  Mul(Div(Int2Num(Cardinality(DuplicateRows)), Int2Num(Len(rows))),
                      Int2Num(100))),
              SumSeq([j \in 1..Len(headers) |-> CardinalityPenalty(headers[j])])))

ExpectedOutlierSeverity(percentage) ==
  IF Gt(percentage, Int2Num(5)) THEN "high"
  ELSE IF Gt(percentage, Int2Num(2)) /\ Le(percentage, Int2Num(5)) THEN "medium"
  ELSE "low"

\* C11: analyzeDataQuality emits one outlier issue for each number-typed
\* column with at least one outlier and none for any other column; its
\* severity is high when the column's outlier percentage is above 5, medium
\* when it is above 2 and at most 5, and low otherwise.
C11_OutlierIssues ==
  Analyzed =>
    \A h \in Range(headers) :
      IF /\ result.dataTypes[h].type = "number"
         /\ detectOutliers(Column(parsedData, h)).count > 0
      THEN /\ Cardinality(IssuesAbout(result.issues, "outlier", h)) = 1
           /\ \A i \in IssuesAbout(result.issues, "outlier", h) :
                /\ result.issues[i].count = detectOutliers(Column(parsedData, h)).count
                /\ result.issues[i].severity =
                     ExpectedOutlierSeverity(
                       Mul(Div(Int2Num(result.issues[i].count), Int2Num(Len(rows))),
                           Int2Num(100)))
      ELSE IssuesAbout(result.issues, "outlier", h) = {}

\* One outlier among fifty values: 2%, severity low
C11_Witness ==
  /\ Analyzed
  /\ \E i \in 1..Len(result.issues) :
       /\ result.issues[i].type = "outlier"
       /\ result.issues[i].severity = "low"
       /\ result.issues[i].count = 1
       /\ Len(rows) = 50

\* A value that is not missing and whose text contains "$", ",", "(" or ")"
SymbolFormatted(v) ==
  /\ ~CellIsMissing(v)
  /\ \E c \in {"$", ",", "(", ")"} : includes(StringOf(v), c)

\* Some but not all of the values of column h are symbol-formatted
PartlyFormatted(h) ==
  /\ \E i \in 1..Len(rows) : SymbolFormatted(rows[i][h])
  /\ \E i \in 1..Len(rows) : ~CellIsMissing(rows[i][h]) /\ ~SymbolFormatted(rows[i][h])

ExpectedOverall ==
  LET weighted ==
        Add(Add(Add(Mul(Fin(40, 100), result.scores.completeness),
                    Mul(Fin(30, 100), result.scores.uniqueness)),
                Mul(Fin(20, 100), result.scores.validity)),
            Mul(Fin(10, 100), result.scores.consistency))
      missingColumns == Cardinality({h \in Range(headers) : MissingCount(h) > 0})
      K == Cardinality({h \in Range(headers) : /\ result.dataTypes[h].type = "number"
                                               /\ PartlyFormatted(h)})
  IN  MathMax(Int2Num(0),
              Sub(Sub(weighted,
                      Mul(Div(Int2Num(missingColumns), Int2Num(Len(headers))), Int2Num(20))),
                  Int2Num(5 * K)))

-----------------------------------------------------------------------------
(* Properties of generateAIInsights *)

RequestFailed == call \in {"fetch rejected", "response not ok"}

\* The four fields of an insights object that the fallback guarantees
FallbackFields(insights) ==
  <<insights.summary, insights.criticalIssues, insights.recommendations, insights.readiness>>

\* Two analyses with the same overallScore and the same issues
SameScoreAndIssues(first, second) ==
  first.overallScore = second.overallScore /\ first.issues = second.issues

\* The promise settled as the claim says for the analysis first, and the
\* fallback for the analysis second agrees with it if second has the score
\* and the issues of first
SettledWithFallback(settled, first, second) ==
  /\ settled.state = "fulfilled"
  /\ settled.value.model = "fallback"
  /\ settled.value.readiness.ready = Ge(first.overallScore, Int2Num(70))
  /\ SameScoreAndIssues(first, second)
       => \A now \in Times :
            FallbackFields(getFallbackInsights(second, now)) = FallbackFields(settled.value)

\* C20: when the insight request fails (fetch rejects, or the response status
\* is not OK) generateAIInsights resolves, with a result marked model
\* "fallback" whose readiness.ready is true exactly when overallScore >= 70,
\* and any analysis with the same overallScore and the same issues yields the
\* same fallback summary, criticalIssues, recommendations and readiness,
\* whatever the clock reads.
C20_FallbackOnFailure ==
  RequestFailed => SettledWithFallback(result, dataAnalysis, otherAnalysis)

\* The two datasets have different sizes and analyses that agree on score
\* and issues
DifferentSizeSameFallback(first, second) ==
  SameScoreAndIssues(first, second) /\ first.summary # second.summary

\* The response status is not OK and the promise is fulfilled with a fallback
\* that says ready; the other dataset has another size, hence another
\* context, but the same score and issues
C20_Witness ==
  /\ call = "response not ok"
  /\ result.state = "fulfilled"
  /\ result.value.readiness.ready
  /\ DifferentSizeSameFallback(dataAnalysis, otherAnalysis)

-----------------------------------------------------------------------------
(* Properties of the mode *)

\* How often the number x occurs among the numbers of the column
FrequencyOf(x) == Cardinality({i \in 1..Len(NumericCells) : NumericCells[i] = x})

HighestFrequency == CHOOSE f \in 1..Len(NumericCells) :
                      /\ \E x \in Range(NumericCells) : FrequencyOf(x) = f
                      /\ \A x \in Range(NumericCells) : FrequencyOf(x) <= f

\* The value of highest frequency that is encountered first in the column
FirstEncounteredMode ==
  NumericCells[CHOOSE i \in 1..Len(NumericCells) :
                 /\ FrequencyOf(NumericCells[i]) = HighestFrequency
                 /\ \A j \in 1..(i - 1) : FrequencyOf(NumericCells[j]) < HighestFrequency]

\* C24: calculateStatistics reports as mode a value whose frequency is the
\* highest in the column; when several values share that frequency it is the
\* one among them that is encountered first in the column's order.
C24_ModeFirstEncountered ==
  (call = "calculateStatistics" /\ NumericCells # <<>>) =>
    /\ FrequencyOf(result.mode) = HighestFrequency
    /\ result.mode = FirstEncounteredMode

-----------------------------------------------------------------------------
(* Properties of the row fingerprint *)

\* How often the cell v occurs in row r (0-based) across the headers
Occurrences(r, v) == Cardinality({j \in 1..Len(headers) : rows[r + 1][headers[j]] = v})

\* Rows i and j hold the same multiset of cells, cells compared by type and
\* value, but not the same cell in every column
SameMultisetElsewhere(i, j) ==
  /\ \A h \in Range(headers) : Occurrences(i, rows[i + 1][h]) = Occurrences(j, rows[i + 1][h])
  /\ rows[i + 1] # rows[j + 1]

\* C23: two rows whose values across all headers form the same multiset of
\* cells, in different column positions, get the same fingerprint from
\* findDuplicates, and the later one is reported as a duplicate.
C23_MultisetFingerprint ==
  call = "findDuplicates" =>
    \A i, j \in 0..(Len(rows) - 1) :
      (i < j /\ SameMultisetElsewhere(i, j)) =>
        /\ j \in SameFingerprint(i)
        /\ \E k \in 1..Len(result.duplicates) : result.duplicates[k].duplicateRow = j

-----------------------------------------------------------------------------
(* Properties of the duplicate list *)

\* The entries of the duplicate list whose duplicateRow is r
EntriesFor(r) == {k \in 1..Len(result.duplicates) : result.duplicates[k].duplicateRow = r}

\* The number of distinct fingerprints among the rows
FingerprintClasses == Cardinality({rowHash(headers, rows[i]) : i \in 1..Len(rows)})

\* C27: in every result of findDuplicates each row is either the first row
\* of its fingerprint class or appears exactly once as a duplicateRow; no
\* originalRow appears as a duplicateRow; the entries are in ascending
\* duplicateRow order; and count equals the number of rows minus the number
\* of distinct fingerprints.
C27_DuplicateListShape ==
  call = "findDuplicates" =>
    /\ \A r \in 0..(Len(rows) - 1) :
         IF \A i \in SameFingerprint(r) : r <= i
         THEN EntriesFor(r) = {}
         ELSE Cardinality(EntriesFor(r)) = 1
    /\ \A k \in 1..Len(result.duplicates) :
         /\ result.duplicates[k].duplicateRow \in 0..(Len(rows) - 1)
         /\ EntriesFor(result.duplicates[k].originalRow) = {}
    /\ \A k, m \in 1..Len(result.duplicates) :
         k < m => result.duplicates[k].duplicateRow < result.duplicates[m].duplicateRow
    /\ result.count = Len(result.duplicates)
    /\ result.count = Len(rows) - FingerprintClasses

\* Two fingerprint classes, one of them with three rows or more
C27_Witness ==
  /\ call = "findDuplicates"
  /\ FingerprintClasses = 2
  /\ result.count >= 2
  /\ \E r \in 1..(Len(rows) - 1) : EntriesFor(r) = {}

-----------------------------------------------------------------------------
(* Properties of the format checks *)

\* The number of columns whose inferred type reports mixed types
ColumnsWithMixedTypes ==
  Cardinality({h \in Range(headers) : MixedTypes(result.dataTypes[h])})

\* The number-typed columns with both symbol-decorated and plain values
SplitColumns ==
  {h \in Range(headers) : result.dataTypes[h].type = "number" /\ PartlyFormatted(h)}

\* C25: analyzeDataQuality computes the consistency score as 100 -
\* (columnsWithMixedTypes / totalColumns) x 100 - 3 x M, M being the number
\* of number-typed columns that contain both symbol-decorated values
\* (currency sign, comma or parenthesis) and plain values.
C25_ConsistencyFormula ==
  Analyzed =>
    result.scores.consistency =
      Sub(Sub(Int2Num(100),
              Mul(Div(Int2Num(ColumnsWithMixedTypes), Int2Num(Len(headers))), Int2Num(100))),
          Int2Num(3 * Cardinality(SplitColumns)))

\* The columns that got a format issue
FormatIssueColumns ==
  {h \in Range(headers) : IssuesAbout(result.issues, "format", h) # {}}

\* C28: the three places of analyzeDataQuality that decide whether a
\* number-typed column has a formatting split agree for every column: it gets
\* the 5-point formatIssuesPenalty if and only if it gets the 3-point
\* formatInconsistencyPenalty, and if and only if a format issue is emitted
\* for it.
C28_FormatChecksAgree ==
  Analyzed =>
    \A h \in Range(headers) :
      result.dataTypes[h].type = "number" =>
        /\ HasFormatIssuePenalty(parsedData, h) <=> HasFormatInconsistency(parsedData, h)
        /\ HasFormatIssuePenalty(parsedData, h) <=> h \in FormatIssueColumns

-----------------------------------------------------------------------------
(* Properties of the statistics of a number column *)

\* The cells of column h that detectDataType tallies as number
NumberClassified(h) ==
  SelectSeq(Column(parsedData, h), LAMBDA v : NonNull(v) /\ ClassifyValue(v) = "number")

\* C29: for every column whose dominant type is number, the values that
\* enter its statistics and its outlier scan are exactly the values that
\* detectDataType counted as number: statistics.count equals the number
\* tally, the statistics are those of the number-tallied values, and every
\* outlier listed is a number-tallied value.
C29_StatisticsOfNumberValues ==
  Analyzed =>
    \A h \in Range(headers) :
      result.dataTypes[h].type = "number" =>
        /\ result.columnStats[h].statistics.count = Len(NumberClassified(h))
        /\ result.columnStats[h].statistics = calculateStatistics(NumberClassified(h))
        /\ \A k \in 1..Len(result.columnStats[h].outliers.outliers) :
             ClassifyValue(rows[result.columnStats[h].outliers.outliers[k].index + 1][h])
               = "number"

-----------------------------------------------------------------------------
(* Properties of the input *)

-----------------------------------------------------------------------------
(* Properties of the store *)

Recent(file) == readDB(file).recent_analyses

History(file) == readDB(file).quality_history

\* The latest returned call of addRecentAnalysis for the file
LatestCall(fileName) ==
  CHOOSE k \in 1..Len(calls) :
    /\ calls[k].pc = "returned" /\ calls[k].entry.fileName = fileName
    /\ \A j \in (k + 1)..Len(calls) :
         ~(calls[j].pc = "returned" /\ calls[j].entry.fileName = fileName)

AddedPresent ==
  AllReturned =>
    \A i \in 1..Len(calls) :
      calls[i].op = "addQualityHistory" => calls[i].saved \in Range(History(dbFile))

NoneRemoved ==
  Len(History(dbFile)) < 5000 =>
    \A e \in Range(History(dbFile)) : e \in Range(History(dbFile'))

\* C21: the quality history is append-only under every interleaving of
\* addQualityHistory with addQualityHistory or addRecentAnalysis: once all
\* calls have returned every entry added is in the store, and no step removes
\* a stored entry (the 5000-entry cap aside).
C21_AppendOnly == [](AddedPresent) /\ [][NoneRemoved]_vars

-----------------------------------------------------------------------------
(* Properties of the POST /api/ai-insights handler *)

\* C26: when the call of the narrative service fails after the body of the
\* request has been read, the handler answers with status 200 and a fallback
\* insights object (model 'fallback', error true) built from the request's
\* dataAnalysis; it does not throw and does not answer with an error status.
C26_FallbackAnswer ==
  call = "create rejected" =>
    /\ result.outcome = "response"
    /\ result.status = 200
    /\ result.body.model = "fallback"
    /\ result.body.error = TRUE
    /\ result.body.context = buildAnalysisContext(dataAnalysis)

====
